---------------------------- MODULE Spec2Model ----------------------------
(***************************************************************************)
(* Model of the persistent finite-state-machine library: the transition   *)
(* engine (ActorImpl.send), the bound machine (createActor / getActor)    *)
(* and the key-value snapshot adapter (RedisAdapter load / create / save).*)
(*                                                                         *)
(* Every asynchronous call is a process that advances from one await to   *)
(* the next; a step of the model is the synchronous run of code between   *)
(* two awaits.  A command handed to the key-value client takes effect at  *)
(* the moment it is issued (the in-memory client of the tests, and the    *)
(* first-in first-out order of one connection); the caller resumes in a   *)
(* later step.                                                            *)
(***************************************************************************)
EXTENDS Integers, Sequences, FiniteSets, TLC

VARIABLES
    machineDefinition,  \* name of the definition the bound machine was built with
    adapterFaults,      \* whether the key-value client may reject a command
    store,              \* the key-value client's content: id -> JSON text
    sets,               \* number of client.set commands that took effect
    savedSnapshots,     \* the snapshots handed to adapter.save, in order,
                        \* when a spy records them; null without a spy
    clock,              \* the wall clock read by `new Date()`, in milliseconds
    actors,             \* heap of ActorImpl objects; the index is the reference
    parents,            \* for each actor object, the receiver of the send that
                        \* returned it, 0 for an actor built from a loaded or
                        \* created snapshot; null when lineages are not followed
    heapLimit,          \* number of actor objects the callers may hold
    pc,                 \* position of each asynchronous call
    call                \* arguments, locals and result of each call

vars == <<machineDefinition, adapterFaults, heapLimit, store, sets, savedSnapshots,
         clock, actors, parents, pc, call>>

-----------------------------------------------------------------------------
(* Bounds of the model *)

MaxActors == 3
MaxActorsConcurrent == 4
MaxActorsLineage == 4
MaxTicks == 1
TickStep == 600

Procs == {"p1", "p2"}
Ids == {"A", "B"}
Payloads == {[shouldFail |-> FALSE], [shouldFail |-> TRUE]}
InitialContexts == {[attempts |-> 0], [attempts |-> 1]}

-----------------------------------------------------------------------------
(* Values *)

\* `undefined`: the value of a missing key; it has no fields
undefined == [k \in {} |-> k]

\* Optional values (null | T) are sequences of length at most one
null == <<>>
Some(v) == <<v>>
IsNull(o) == Len(o) = 0
Get(o) == o[1]

-----------------------------------------------------------------------------
(* Machine definitions handed to machine().define()                        *)

\* An order workflow in the style of the repository's test machines: a
\* synchronous entry with onError (processing), an asynchronous entry with
\* onError (loading), an entry without onError (failing), and simple states.
workflowMachine ==
    [initial |-> "pending",
     states |->
       [pending    |-> [on |-> [process |-> [target |-> "processing"],
                                fetch   |-> [target |-> "loading"],
                                fail    |-> [target |-> "failing"],
                                skip    |-> [target |-> "completed"]]],
        processing |-> [entry     |-> [fn |-> "processOrder", async |-> FALSE],
                        onSuccess |-> [target |-> "completed"],
                        onError   |-> [target |-> "failed"]],
        loading    |-> [entry     |-> [fn |-> "processOrder", async |-> TRUE],
                        onSuccess |-> [target |-> "completed"],
                        onError   |-> [target |-> "failed"]],
        failing    |-> [entry     |-> [fn |-> "processOrder", async |-> FALSE],
                        onSuccess |-> [target |-> "completed"]],
        completed  |-> [on |-> [reset |-> [target |-> "pending"]]],
        failed     |-> [on |-> [retry |-> [target |-> "processing"],
                                fail  |-> [target |-> "failing"]]]]]

\* The machine of the "handles errors and recovery" test
failingOrderMachine ==
    [initial |-> "pending",
     states |->
       [pending    |-> [on |-> [process |-> [target |-> "processing"]]],
        processing |-> [entry     |-> [fn |-> "processOrder", async |-> FALSE],
                        onSuccess |-> [target |-> "completed"],
                        onError   |-> [target |-> "failed"]],
        completed  |-> undefined,
        failed     |-> [on |-> [retry |-> [target |-> "processing"]]]]]

\* The same machine with an asynchronous entry function, as the `loading`
\* state of the asyncMachine of the actor tests
asyncOrderMachine ==
    [initial |-> "pending",
     states |->
       [pending    |-> [on |-> [process |-> [target |-> "processing"]]],
        processing |-> [entry     |-> [fn |-> "processOrder", async |-> TRUE],
                        onSuccess |-> [target |-> "completed"],
                        onError   |-> [target |-> "failed"]],
        completed  |-> undefined,
        failed     |-> [on |-> [retry |-> [target |-> "processing"]]]]]

\* A definition the builder accepts although its targets are not validated:
\* `start` names a state that does not exist (the second definition of the
\* skipped type test), the onError of `polling` names `polling` itself, and
\* the onSuccess of `fetching` names the entry-bearing `polling`
unvalidatedMachine ==
    [initial |-> "idle",
     states |->
       [idle     |-> [on |-> [start |-> [target |-> "nonexistent"],
                              poll  |-> [target |-> "polling"],
                              fetch |-> [target |-> "fetching"]]],
        polling  |-> [on        |-> [poll |-> [target |-> "polling"]],
                      entry     |-> [fn |-> "processOrder", async |-> FALSE],
                      onSuccess |-> [target |-> "running"],
                      onError   |-> [target |-> "polling"]],
        fetching |-> [entry     |-> [fn |-> "processOrder", async |-> TRUE],
                      onSuccess |-> [target |-> "polling"],
                      onError   |-> [target |-> "idle"]],
        running  |-> undefined]]

\* The machine of the "completes a full cycle" test
trafficLightMachine ==
    [initial |-> "red",
     states |->
       [red    |-> [on |-> [next |-> [target |-> "green"]]],
        green  |-> [on |-> [next |-> [target |-> "yellow"]]],
        yellow |-> [on |-> [next |-> [target |-> "red"]]]]]

\* The machine of the "handles self-transitions and re-runs entry" test, with
\* the self-transition of the "allows self-transitions" test
selfTransitionMachine ==
    [initial |-> "counting",
     states |->
       [counting     |-> [on |-> [increment |-> [target |-> "incrementing"],
                                  touch     |-> [target |-> "counting"]]],
        incrementing |-> [entry     |-> [fn |-> "increment", async |-> FALSE],
                          onSuccess |-> [target |-> "counting"]]]]

\* The entry states of the actor tests side by side: the same entry function
\* called synchronously (processing, failing) and asynchronously (loading,
\* rejecting), with and without onError
syncAsyncMachine ==
    [initial |-> "idle",
     states |->
       [idle       |-> [on |-> [process |-> [target |-> "processing"],
                                fetch   |-> [target |-> "loading"],
                                fail    |-> [target |-> "failing"],
                                reject  |-> [target |-> "rejecting"]]],
        processing |-> [entry     |-> [fn |-> "processOrder", async |-> FALSE],
                        onSuccess |-> [target |-> "success"],
                        onError   |-> [target |-> "error"]],
        loading    |-> [entry     |-> [fn |-> "processOrder", async |-> TRUE],
                        onSuccess |-> [target |-> "success"],
                        onError   |-> [target |-> "error"]],
        failing    |-> [entry     |-> [fn |-> "processOrder", async |-> FALSE],
                        onSuccess |-> [target |-> "success"]],
        rejecting  |-> [entry     |-> [fn |-> "processOrder", async |-> TRUE],
                        onSuccess |-> [target |-> "success"]],
        success    |-> undefined,
        error      |-> undefined]]

\* A definition with an asynchronous entry whose promise is never settled,
\* next to one whose promise is
hangingMachine ==
    [initial |-> "idle",
     states |->
       [idle    |-> [on |-> [load |-> [target |-> "loading"],
                             wait |-> [target |-> "waiting"]]],
        loading |-> [entry     |-> [fn |-> "processOrder", async |-> TRUE],
                     onSuccess |-> [target |-> "ready"],
                     onError   |-> [target |-> "idle"]],
        waiting |-> [entry     |-> [fn |-> "neverResolves", async |-> TRUE],
                     onSuccess |-> [target |-> "ready"]],
        ready   |-> [on |-> [reset |-> [target |-> "idle"]]]]]

\* machine().define(config): the definition carries the config as given
define(name) ==
    CASE name = "workflowMachine" -> workflowMachine
      [] name = "failingOrderMachine" -> failingOrderMachine
      [] name = "asyncOrderMachine" -> asyncOrderMachine
      [] name = "unvalidatedMachine" -> unvalidatedMachine
      [] name = "hangingMachine" -> hangingMachine
      [] name = "trafficLightMachine" -> trafficLightMachine
      [] name = "syncAsyncMachine" -> syncAsyncMachine
      [] name = "selfTransitionMachine" -> selfTransitionMachine

\* TEvents: the keys of the `on` tables of a definition
Events(states) ==
    UNION {DOMAIN states[s].on : s \in {t \in DOMAIN states : "on" \in DOMAIN states[t]}}

-----------------------------------------------------------------------------
(* Entry functions of the definitions *)

Error(message) == [name |-> "Error", message |-> <<message>>]

\* entry: (ctx, event) => { if (event.shouldFail) throw ...; return { attempts: ctx.attempts + 1 } }
processOrder(ctx, event) ==
    IF event.shouldFail
    THEN [ok |-> FALSE, value |-> ctx, error |-> <<Error("Processing failed")>>]
    ELSE [ok |-> TRUE, value |-> [attempts |-> ctx.attempts + 1], error |-> <<>>]

\* entry: (ctx, _event) => ({ count: ctx.count + 1 })
increment(ctx, event) ==
    [ok |-> TRUE, value |-> [count |-> ctx.count + 1], error |-> <<>>]

\* targetStateConfig.entry(this.context, payload)
CallEntry(entry, ctx, payload) ==
    CASE entry.fn = "processOrder" -> processOrder(ctx, payload)
      [] entry.fn = "increment" -> increment(ctx, payload)

\* whether the promise an entry returned is ever settled:
\* entry: () => new Promise(() => {}) returns one that is not
Settles(entry) == entry.fn # "neverResolves"


-----------------------------------------------------------------------------
(* Serialization boundary of the key-value adapter *)

\* Date.prototype.toJSON: the ISO-8601 text of a timestamp, seconds and a
\* three-digit millisecond field
\* an ISO-8601 text without the millisecond field
toISOStringSeconds(date) == [sec |-> date \div 1000, ms |-> 0]

toISOString(date) == [sec |-> date \div 1000, ms |-> date % 1000]

\* new Date(text)
DateFromISO(text) == text.sec * 1000 + text.ms

\* JSON.stringify(snapshot)
JSONStringify(snapshot) ==
    [id        |-> snapshot.id,
     state     |-> snapshot.state,
     context   |-> snapshot.context,
     createdAt |-> toISOString(snapshot.createdAt),
     updatedAt |-> toISOString(snapshot.updatedAt)]

\* RedisAdapter.load that takes every answer of the client for a miss
LoadResultAlwaysNull(json) == null

\* RedisAdapter.load, after client.get returned `json`
LoadResult(json) ==
    IF IsNull(json)
    THEN null
    ELSE LET data == Get(json)
         IN  Some([id        |-> data.id,
                   state     |-> data.state,
                   context   |-> data.context,
                   createdAt |-> DateFromISO(data.createdAt),
                   updatedAt |-> DateFromISO(data.updatedAt)])

\* client.get(key)
ClientGet(kv, key) == IF key \in DOMAIN kv THEN Some(kv[key]) ELSE null

\* client.set(key, value)
ClientSet(kv, key, value) ==
    [k \in DOMAIN kv \cup {key} |-> IF k = key THEN value ELSE kv[k]]

\* RedisAdapter.create: client.set(id, JSON.stringify(snapshot))
\* [a create that leaves an existing record alone]
CreateIfAbsent(kv, snapshot) ==
    IF snapshot.id \in DOMAIN kv
    THEN kv
    ELSE ClientSet(kv, snapshot.id, JSONStringify(snapshot))

Create(kv, snapshot) == ClientSet(kv, snapshot.id, JSONStringify(snapshot))

\* a first snapshot that ignores the context argument for a seed context
CreateSnapshotSeedContext(id, state, context, now) ==
    [id |-> id, state |-> state, context |-> [attempts |-> 0],
     createdAt |-> now, updatedAt |-> now]

\* a first snapshot whose createdAt is the epoch rather than `now`
CreateSnapshotFromEpoch(id, state, context, now) ==
    [id |-> id, state |-> state, context |-> context,
     createdAt |-> 0, updatedAt |-> now]

\* RedisAdapter.create builds the first snapshot
CreateSnapshot(id, state, context, now) ==
    [id |-> id, state |-> state, context |-> context,
     createdAt |-> now, updatedAt |-> now]

\* The commands a client may answer with: success, or failure when the
\* backend is unreachable
ClientOutcomes == IF adapterFaults THEN BOOLEAN ELSE {TRUE}

AdapterError == [name |-> "Error", message |-> <<"connection lost">>]

ActorAlreadyExistsError(id) ==
    [name |-> "ActorAlreadyExistsError",
     message |-> <<"Actor with id", id, "already exists">>]

-----------------------------------------------------------------------------
(* The transition engine's pure parts *)

\* ActorImpl constructor
ActorImpl(snapshot) ==
    [id |-> snapshot.id, state |-> snapshot.state,
     context |-> snapshot.context, snapshot |-> snapshot]

\* a lookup that takes an unknown name for the first state of the definition
StateConfigOrFirst(states, name) ==
    IF name \in DOMAIN states THEN states[name] ELSE states["idle"]

\* states[name]
StateConfig(states, name) ==
    IF name \in DOMAIN states THEN states[name] ELSE undefined

\* a lookup that reads the table of the initial state when the current state
\* is unknown
TransitionOrInitial(states, state, event) ==
    LET currentStateConfig ==
          StateConfig(states, IF state \in DOMAIN states
                              THEN state
                              ELSE define(machineDefinition).initial)
    IN  IF "on" \in DOMAIN currentStateConfig
           /\ event \in DOMAIN currentStateConfig.on
        THEN Some(currentStateConfig.on[event])
        ELSE null

\* a lookup of the event in the tables of all states, whatever the current one
TransitionInAnyState(states, state, event) ==
    LET handlers == {s \in DOMAIN states :
                       "on" \in DOMAIN states[s] /\ event \in DOMAIN states[s].on}
    IN  IF handlers = {}
        THEN null
        ELSE Some(states[CHOOSE s \in handlers : TRUE].on[event])

\* a lookup that finds no transition when the target is the current state
TransitionIgnoresSelf(states, state, event) ==
    LET currentStateConfig == StateConfig(states, state)
    IN  IF /\ "on" \in DOMAIN currentStateConfig
           /\ event \in DOMAIN currentStateConfig.on
           /\ currentStateConfig.on[event].target # state
        THEN Some(currentStateConfig.on[event])
        ELSE null

\* a lookup that takes an event without a transition for a re-entry of the
\* current state
TransitionOrReenter(states, state, event) ==
    LET currentStateConfig == StateConfig(states, state)
    IN  IF "on" \in DOMAIN currentStateConfig
           /\ event \in DOMAIN currentStateConfig.on
        THEN Some(currentStateConfig.on[event])
        ELSE IF state \in DOMAIN states
        THEN Some([target |-> state])
        ELSE null

\* currentStateConfig?.on?.[event]
Transition(states, state, event) ==
    LET currentStateConfig == StateConfig(states, state)
    IN  IF "on" \in DOMAIN currentStateConfig
           /\ event \in DOMAIN currentStateConfig.on
        THEN Some(currentStateConfig.on[event])
        ELSE null

\* targetStateConfig?.entry
HasEntry(targetStateConfig) == "entry" \in DOMAIN targetStateConfig

\* a try branch that forgets onSuccess and rests in the entry state
SuccessStateIsTarget(targetStateConfig, targetStateName) == targetStateName

\* the try branch after the entry returned
SuccessState(targetStateConfig, targetStateName) ==
    IF "onSuccess" \in DOMAIN targetStateConfig
    THEN targetStateConfig.onSuccess.target
    ELSE targetStateName

\* a catch branch that always re-throws
ErrorStateAlwaysRethrows(targetStateConfig) == null

\* a catch branch that routes to onSuccess when there is no onError
ErrorStateFallsBackToSuccess(targetStateConfig) ==
    IF "onError" \in DOMAIN targetStateConfig
    THEN Some(targetStateConfig.onError.target)
    ELSE Some(targetStateConfig.onSuccess.target)

\* a catch branch that routes a failure like a success
ErrorStateRoutesToSuccess(targetStateConfig) ==
    Some(targetStateConfig.onSuccess.target)

\* the catch branch: the state to route to, or null to re-throw
ErrorState(targetStateConfig) ==
    IF "onError" \in DOMAIN targetStateConfig
    THEN Some(targetStateConfig.onError.target)
    ELSE null

\* a try branch that drops the entry's result
SuccessContextKeepsOld(thisContext, result) == thisContext

\* a try branch that spreads the entry's result over the old context
SuccessContextMergesOld(thisContext, result) ==
    [k \in DOMAIN thisContext \cup DOMAIN result.value |->
       IF k \in DOMAIN result.value THEN result.value[k] ELSE thisContext[k]]

\* the context after a successful entry
SuccessContext(thisContext, result) == result.value

\* a catch branch that counts the failed attempt in the context
ErrorContextCountsAttempt(thisContext, result) ==
    [attempts |-> thisContext.attempts + 1]

\* the context after a caught entry failure
ErrorContext(thisContext, result) == thisContext

\* a new snapshot built without the context
NewSnapshotWithoutContext(this, finalState, newContext, now) ==
    [id        |-> this.id,
     state     |-> finalState,
     context   |-> undefined,
     createdAt |-> this.snapshot.createdAt,
     updatedAt |-> now]

\* a new snapshot that carries the receiver's state along
NewSnapshotKeepsState(this, finalState, newContext, now) ==
    [id        |-> this.id,
     state     |-> this.state,
     context   |-> newContext,
     createdAt |-> this.snapshot.createdAt,
     updatedAt |-> now]

\* a new snapshot that carries the receiver's updatedAt along
NewSnapshotKeepsUpdatedAt(this, finalState, newContext, now) ==
    [id        |-> this.id,
     state     |-> finalState,
     context   |-> newContext,
     createdAt |-> this.snapshot.createdAt,
     updatedAt |-> this.snapshot.updatedAt]

\* a new snapshot that stamps createdAt anew
NewSnapshotCreatedNow(this, finalState, newContext, now) ==
    [id        |-> this.id,
     state     |-> finalState,
     context   |-> newContext,
     createdAt |-> now,
     updatedAt |-> now]

\* a new snapshot filed under one key for all actors
NewSnapshotUnderOneKey(this, finalState, newContext, now) ==
    [id        |-> "A",
     state     |-> finalState,
     context   |-> newContext,
     createdAt |-> this.snapshot.createdAt,
     updatedAt |-> now]

\* a new snapshot that puts the time of the transition in createdAt
NewSnapshotStampsCreatedAt(this, finalState, newContext, now) ==
    [id        |-> this.id,
     state     |-> finalState,
     context   |-> newContext,
     createdAt |-> now,
     updatedAt |-> this.snapshot.updatedAt]

\* const newSnapshot = { id, state, context, createdAt, updatedAt }
NewSnapshot(this, finalState, newContext, now) ==
    [id        |-> this.id,
     state     |-> finalState,
     context   |-> newContext,
     createdAt |-> this.snapshot.createdAt,
     updatedAt |-> now]


\* the spy on adapter.save: savedSnapshots.push(snapshot)
Record(recorded, snapshot) ==
    IF IsNull(recorded) THEN null ELSE Some(Append(Get(recorded), snapshot))

\* a save that leaves an existing record alone
SaveIfAbsent(kv, snapshot) ==
    IF snapshot.id \in DOMAIN kv
    THEN kv
    ELSE ClientSet(kv, snapshot.id, JSONStringify(snapshot))

\* a save that keeps the createdAt of the record it finds
SaveKeepsStoredCreatedAt(kv, snapshot) ==
    ClientSet(kv, snapshot.id,
              IF snapshot.id \in DOMAIN kv
              THEN [JSONStringify(snapshot) EXCEPT !.createdAt = kv[snapshot.id].createdAt]
              ELSE JSONStringify(snapshot))

\* RedisAdapter.save: client.set(snapshot.id, JSON.stringify(snapshot))
Save(kv, snapshot) == ClientSet(kv, snapshot.id, JSONStringify(snapshot))

-----------------------------------------------------------------------------
(* Calls in progress *)

\* The record of a call that has not been made
NoCall ==
    [op          |-> "none",     \* "send", "createActor" or "getActor"
     id          |-> "",         \* createActor / getActor: the id argument
     context     |-> [attempts |-> 0],  \* createActor: the context argument
     receiver    |-> 0,          \* send: reference of the receiver (this)
     event       |-> "",         \* send: the event argument
     payload     |-> [shouldFail |-> FALSE],  \* send: the payload argument
     pending     |-> null,       \* send: the entry's promise, once settled
     entryArgs   |-> null,       \* send: the arguments the entry was called with
     existing    |-> null,       \* the snapshot adapter.load resolved with
     newSnapshot |-> null,       \* the snapshot built by send or adapter.create
     ok          |-> TRUE,       \* whether the last client command succeeded
     setNo       |-> 0,          \* the rank of the call's client.set, 0 for none
     entries     |-> 0,          \* number of entry functions invoked
     loads       |-> 0,          \* number of adapter.load invocations
     creates     |-> 0,          \* number of adapter.create invocations
     saves       |-> 0,          \* number of adapter.save invocations
     outcome     |-> "none",     \* "returned" or "raised" once the call is over
     result      |-> 0,          \* reference of the returned actor, 0 for null
     error       |-> null]       \* the error the call raised

Running(p) == pc[p] \notin {"idle", "done"}

\* A new call may start while the heap has room for every actor the calls in
\* progress may still allocate
CanStart(p) ==
    /\ ~Running(p)
    /\ Len(actors) + Cardinality({q \in DOMAIN pc : Running(q)}) < heapLimit

\* return value (a reference, or 0 for null)
Return(p, c, ref) ==
    /\ pc' = [pc EXCEPT ![p] = "done"]
    /\ call' = [call EXCEPT ![p] = [c EXCEPT !.outcome = "returned", !.result = ref]]

\* throw error
Raise(p, c, err) ==
    /\ pc' = [pc EXCEPT ![p] = "done"]
    /\ call' = [call EXCEPT ![p] = [c EXCEPT !.outcome = "raised", !.error = Some(err)]]

\* the lineage of a new actor object: the actor it was derived from
Follow(followed, ref) ==
    IF IsNull(followed) THEN null ELSE Some(Append(Get(followed), ref))

\* a send that updates its receiver in place and returns it
ReturnMutatedReceiver(p, c, snapshot) ==
    IF c.op = "send"
    THEN /\ actors' = [actors EXCEPT ![c.receiver] = ActorImpl(snapshot)]
         /\ UNCHANGED parents
         /\ Return(p, c, c.receiver)
    ELSE /\ actors' = Append(actors, ActorImpl(snapshot))
         /\ parents' = Follow(parents, 0)
         /\ Return(p, c, Len(actors) + 1)

\* return new ActorImpl(snapshot, ...) / createActorFromSnapshot(snapshot, ...)
ReturnNewActor(p, c, snapshot) ==
    /\ actors' = Append(actors, ActorImpl(snapshot))
    /\ parents' = Follow(parents, IF c.op = "send" THEN c.receiver ELSE 0)
    /\ Return(p, c, Len(actors) + 1)

-----------------------------------------------------------------------------
(* ActorImpl.send *)

\* a send that calls adapter.save without awaiting it: the actor is returned
\* while the command is still on its way
PersistWithoutAwait(p, c, finalState, newContext) ==
    LET this == actors[c.receiver]
        newSnapshot == NewSnapshot(this, finalState, newContext, clock)
        cs == [c EXCEPT !.newSnapshot = Some(newSnapshot), !.saves = @ + 1]
    IN  /\ actors' = Append(actors, ActorImpl(newSnapshot))
        /\ parents' = Follow(parents, c.receiver)
        /\ Return(p, cs, Len(actors) + 1)
        /\ savedSnapshots' = Record(savedSnapshots, newSnapshot)
        /\ UNCHANGED <<store, sets>>

\* a send that hands the receiver's snapshot to adapter.save
PersistReceiverSnapshot(p, c, finalState, newContext) ==
    LET this == actors[c.receiver]
        newSnapshot == NewSnapshot(this, finalState, newContext, clock)
    IN  \E ok \in ClientOutcomes :
          /\ store' = IF ok THEN Save(store, this.snapshot) ELSE store
          /\ sets' = IF ok THEN sets + 1 ELSE sets
          /\ savedSnapshots' = Record(savedSnapshots, newSnapshot)
          /\ pc' = [pc EXCEPT ![p] = "send_save"]
          /\ call' = [call EXCEPT ![p] =
                        [c EXCEPT !.newSnapshot = Some(newSnapshot),
                                  !.saves = @ + 1,
                                  !.setNo = IF ok THEN sets + 1 ELSE 0,
                                  !.ok = ok]]
          /\ UNCHANGED <<actors, parents>>

\* a save made only if the record is still the receiver's snapshot
PersistIfCurrent(p, c, finalState, newContext) ==
    LET this == actors[c.receiver]
        newSnapshot == NewSnapshot(this, finalState, newContext, clock)
        current == ClientGet(store, this.id) = Some(JSONStringify(this.snapshot))
    IN  \E ok \in ClientOutcomes :
          /\ store' = IF ok /\ current THEN Save(store, newSnapshot) ELSE store
          /\ sets' = IF ok /\ current THEN sets + 1 ELSE sets
          /\ savedSnapshots' = Record(savedSnapshots, newSnapshot)
          /\ pc' = [pc EXCEPT ![p] = "send_save"]
          /\ call' = [call EXCEPT ![p] =
                        [c EXCEPT !.newSnapshot = Some(newSnapshot),
                                  !.saves = @ + 1,
                                  !.setNo = IF ok /\ current THEN sets + 1 ELSE 0,
                                  !.ok = ok]]
          /\ UNCHANGED <<actors, parents>>

\* a save whose write reaches the store even when the command is rejected
PersistDespiteFailure(p, c, finalState, newContext) ==
    LET this == actors[c.receiver]
        newSnapshot == NewSnapshot(this, finalState, newContext, clock)
    IN  \E ok \in ClientOutcomes :
          /\ store' = Save(store, newSnapshot)
          /\ sets' = IF ok THEN sets + 1 ELSE sets
          /\ savedSnapshots' = Record(savedSnapshots, newSnapshot)
          /\ pc' = [pc EXCEPT ![p] = "send_save"]
          /\ call' = [call EXCEPT ![p] =
                        [c EXCEPT !.newSnapshot = Some(newSnapshot),
                                  !.saves = @ + 1,
                                  !.setNo = IF ok THEN sets + 1 ELSE 0,
                                  !.ok = ok]]
          /\ UNCHANGED <<actors, parents>>

\* lines 106-116: build the new snapshot and call adapter.save
Persist(p, c, finalState, newContext) ==
    LET this == actors[c.receiver]
        newSnapshot == NewSnapshot(this, finalState, newContext, clock)
    IN  \E ok \in ClientOutcomes :
          /\ store' = IF ok THEN Save(store, newSnapshot) ELSE store
          /\ sets' = IF ok THEN sets + 1 ELSE sets
          /\ savedSnapshots' = Record(savedSnapshots, newSnapshot)
          /\ pc' = [pc EXCEPT ![p] = "send_save"]
          /\ call' = [call EXCEPT ![p] =
                        [c EXCEPT !.newSnapshot = Some(newSnapshot),
                                  !.saves = @ + 1,
                                  !.setNo = IF ok THEN sets + 1 ELSE 0,
                                  !.ok = ok]]
          /\ UNCHANGED <<actors, parents>>

\* a re-throw that has already saved the entry state
RethrowAfterSave(p, c, err) ==
    LET this == actors[c.receiver]
        states == define(machineDefinition).states
        targetStateName == Get(Transition(states, this.state, c.event)).target
    IN  /\ Raise(p, c, err)
        /\ store' = Save(store, NewSnapshot(this, targetStateName, this.context, clock))
        /\ savedSnapshots' = Record(savedSnapshots,
                                    NewSnapshot(this, targetStateName, this.context, clock))
        /\ UNCHANGED <<sets, actors, parents>>

\* lines 99-102: no onError: re-throw; nothing is built, nothing is saved
Rethrow(p, c, err) ==
    /\ Raise(p, c, err)
    /\ UNCHANGED <<store, sets, savedSnapshots, actors, parents>>

\* a send that also saves the entry state it passes through, before the
\* state it comes to rest in
SettleSavesEntryState(p, c, result) ==
    LET this == actors[c.receiver]
        states == define(machineDefinition).states
        targetStateName == Get(Transition(states, this.state, c.event)).target
        targetStateConfig == StateConfig(states, targetStateName)
        errorState == ErrorState(targetStateConfig)
        entered == NewSnapshot(this, targetStateName, this.context, clock)
    IN  IF ~result.ok /\ IsNull(errorState)
        THEN Rethrow(p, c, Get(result.error))
        ELSE LET newSnapshot ==
                   IF result.ok
                   THEN NewSnapshot(this, SuccessState(targetStateConfig, targetStateName),
                                    SuccessContext(this.context, result), clock)
                   ELSE NewSnapshot(this, Get(errorState),
                                    ErrorContext(this.context, result), clock)
             IN  /\ store' = Save(Save(store, entered), newSnapshot)
                 /\ sets' = sets + 2
                 /\ savedSnapshots' = Record(Record(savedSnapshots, entered), newSnapshot)
                 /\ pc' = [pc EXCEPT ![p] = "send_save"]
                 /\ call' = [call EXCEPT ![p] =
                               [c EXCEPT !.newSnapshot = Some(newSnapshot),
                                         !.saves = @ + 2,
                                         !.setNo = sets + 2,
                                         !.ok = TRUE]]
                 /\ UNCHANGED <<actors, parents>>

\* a try branch that goes on to run the entry of the onSuccess target
SettleChainsEntry(p, c, result) ==
    LET this == actors[c.receiver]
        states == define(machineDefinition).states
        targetStateName == Get(Transition(states, this.state, c.event)).target
        targetStateConfig == StateConfig(states, targetStateName)
        nextStateName == SuccessState(targetStateConfig, targetStateName)
        nextStateConfig == StateConfig(states, nextStateName)
    IN  IF result.ok
        THEN IF HasEntry(nextStateConfig)
             THEN LET next == CallEntry(nextStateConfig.entry,
                                        SuccessContext(this.context, result), c.payload)
                  IN  Persist(p, [c EXCEPT !.entries = @ + 1],
                              SuccessState(nextStateConfig, nextStateName), next.value)
             ELSE Persist(p, c, nextStateName, SuccessContext(this.context, result))
        ELSE LET errorState == ErrorState(targetStateConfig)
             IN  IF IsNull(errorState)
                 THEN Rethrow(p, c, Get(result.error))
                 ELSE Persist(p, c, Get(errorState),
                              ErrorContext(this.context, result))

\* lines 89-103: the entry's result is known: route to onSuccess / onError
Settle(p, c, result) ==
    LET this == actors[c.receiver]
        states == define(machineDefinition).states
        targetStateName == Get(Transition(states, this.state, c.event)).target
        targetStateConfig == StateConfig(states, targetStateName)
    IN  IF result.ok
        THEN Persist(p, c, SuccessState(targetStateConfig, targetStateName),
                     SuccessContext(this.context, result))
        ELSE LET errorState == ErrorState(targetStateConfig)
             IN  IF IsNull(errorState)
                 THEN Rethrow(p, c, Get(result.error))
                 ELSE Persist(p, c, Get(errorState),
                              ErrorContext(this.context, result))

\* actor.send(event, payload), up to its first await
SendCall(p, a, event, payload) ==
    /\ CanStart(p)
    /\ a \in 1..Len(actors)
    /\ LET this == actors[a]
           states == define(machineDefinition).states
           transition == Transition(states, this.state, event)
           c == [NoCall EXCEPT !.op = "send", !.receiver = a,
                               !.event = event, !.payload = payload]
       IN  IF IsNull(transition)
           THEN /\ Return(p, c, a)
                /\ UNCHANGED <<store, sets, savedSnapshots, actors, parents>>
           ELSE LET targetStateName == Get(transition).target
                    targetStateConfig == StateConfig(states, targetStateName)
                IN  IF HasEntry(targetStateConfig)
                    THEN LET result == CallEntry(targetStateConfig.entry,
                                                 this.context, payload)
                             ce == [c EXCEPT
                                      !.entries = @ + 1,
                                      !.entryArgs = Some([context |-> this.context,
                                                          payload |-> payload])]
                         IN  IF targetStateConfig.entry.async
                             THEN /\ pc' = [pc EXCEPT ![p] = "send_entry"]
                                  /\ call' = [call EXCEPT ![p] =
                                                [ce EXCEPT !.pending =
                                                   IF Settles(targetStateConfig.entry)
                                                   THEN Some(result) ELSE null]]
                                  /\ UNCHANGED <<store, sets, savedSnapshots, actors, parents>>
                             ELSE Settle(p, ce, result)
                    ELSE Persist(p, c, targetStateName, this.context)
    /\ UNCHANGED <<machineDefinition, adapterFaults, heapLimit, clock>>

\* an await of the entry that gives up on a promise that does not settle
SendEntrySettledOrTimedOut(p) ==
    /\ pc[p] = "send_entry"
    /\ IF IsNull(call[p].pending)
       THEN Rethrow(p, call[p], Error("Entry timed out"))
       ELSE Settle(p, call[p], Get(call[p].pending))
    /\ UNCHANGED <<machineDefinition, adapterFaults, heapLimit, clock>>

\* an await outside the try block: a rejection is not caught
SendEntrySettledUncaught(p) ==
    /\ pc[p] = "send_entry"
    /\ ~IsNull(call[p].pending)
    /\ IF Get(call[p].pending).ok
       THEN Settle(p, call[p], Get(call[p].pending))
       ELSE Rethrow(p, call[p], Get(Get(call[p].pending).error))
    /\ UNCHANGED <<machineDefinition, adapterFaults, heapLimit, clock>>

\* `await result` resumes: the asynchronous entry has settled
SendEntrySettled(p) ==
    /\ pc[p] = "send_entry"
    /\ ~IsNull(call[p].pending)
    /\ Settle(p, call[p], Get(call[p].pending))
    /\ UNCHANGED <<machineDefinition, adapterFaults, heapLimit, clock>>

\* a send that swallows the failure of adapter.save and returns the actor
SendReturnIgnoresFailure(p) ==
    /\ pc[p] = "send_save"
    /\ ReturnNewActor(p, call[p], Get(call[p].newSnapshot))
    /\ UNCHANGED <<machineDefinition, adapterFaults, heapLimit, store, sets, savedSnapshots, clock>>

\* `await this.adapter.save(newSnapshot)` resumes
SendReturn(p) ==
    /\ pc[p] = "send_save"
    /\ IF call[p].ok
       THEN ReturnNewActor(p, call[p], Get(call[p].newSnapshot))
       ELSE /\ Raise(p, call[p], AdapterError)
            /\ UNCHANGED <<actors, parents>>
    /\ UNCHANGED <<machineDefinition, adapterFaults, heapLimit, store, sets, savedSnapshots, clock>>

-----------------------------------------------------------------------------
(* BoundMachineImpl.createActor *)

\* createActor(id, context), up to `await this.adapter.load(id)`
CreateActorCall(p, id, context) ==
    /\ CanStart(p)
    /\ \E ok \in ClientOutcomes :
         /\ pc' = [pc EXCEPT ![p] = "create_load"]
         /\ call' = [call EXCEPT ![p] =
                       [NoCall EXCEPT
                          !.op = "createActor", !.id = id, !.context = context,
                          !.loads = @ + 1, !.ok = ok,
                          !.existing = IF ok THEN LoadResult(ClientGet(store, id))
                                             ELSE null]]
    /\ UNCHANGED <<machineDefinition, adapterFaults, heapLimit, store, sets, savedSnapshots, clock, actors, parents>>

\* load resumed: throw if the actor exists, else call adapter.create
CreateActorLoaded(p) ==
    /\ pc[p] = "create_load"
    /\ LET c == call[p]
       IN  IF ~c.ok
           THEN /\ Raise(p, c, AdapterError)
                /\ UNCHANGED <<store, sets, savedSnapshots>>
           ELSE IF ~IsNull(c.existing)
           THEN /\ Raise(p, c, ActorAlreadyExistsError(c.id))
                /\ UNCHANGED <<store, sets, savedSnapshots>>
           ELSE LET snapshot == CreateSnapshot(c.id,
                                               define(machineDefinition).initial,
                                               c.context, clock)
                IN  \E ok \in ClientOutcomes :
                      /\ store' = IF ok THEN Create(store, snapshot) ELSE store
                      /\ sets' = IF ok THEN sets + 1 ELSE sets
                      /\ UNCHANGED savedSnapshots
                      /\ pc' = [pc EXCEPT ![p] = "create_create"]
                      /\ call' = [call EXCEPT ![p] =
                                    [c EXCEPT !.newSnapshot = Some(snapshot),
                                              !.creates = @ + 1,
                                              !.setNo = IF ok THEN sets + 1 ELSE 0,
                                              !.ok = ok]]
    /\ UNCHANGED <<machineDefinition, adapterFaults, heapLimit, clock, actors, parents>>

\* `await this.adapter.create(...)` resumes
CreateActorReturn(p) ==
    /\ pc[p] = "create_create"
    /\ IF call[p].ok
       THEN ReturnNewActor(p, call[p], Get(call[p].newSnapshot))
       ELSE /\ Raise(p, call[p], AdapterError)
            /\ UNCHANGED <<actors, parents>>
    /\ UNCHANGED <<machineDefinition, adapterFaults, heapLimit, store, sets, savedSnapshots, clock>>

-----------------------------------------------------------------------------
(* BoundMachineImpl.getActor *)

\* getActor(id), up to `await this.adapter.load(id)`
GetActorCall(p, id) ==
    /\ CanStart(p)
    /\ \E ok \in ClientOutcomes :
         /\ pc' = [pc EXCEPT ![p] = "get_load"]
         /\ call' = [call EXCEPT ![p] =
                       [NoCall EXCEPT
                          !.op = "getActor", !.id = id,
                          !.loads = @ + 1, !.ok = ok,
                          !.existing = IF ok THEN LoadResult(ClientGet(store, id))
                                             ELSE null]]
    /\ UNCHANGED <<machineDefinition, adapterFaults, heapLimit, store, sets, savedSnapshots, clock, actors, parents>>

\* a getActor that throws when the load finds nothing
GetActorReturnThrowsOnMiss(p) ==
    /\ pc[p] = "get_load"
    /\ LET c == call[p]
       IN  IF ~c.ok
           THEN /\ Raise(p, c, AdapterError)
                /\ UNCHANGED <<actors, parents>>
           ELSE IF IsNull(c.existing)
           THEN /\ Raise(p, c, [name |-> "Error",
                                 message |-> <<"Actor with id", c.id, "not found">>])
                /\ UNCHANGED <<actors, parents>>
           ELSE ReturnNewActor(p, c, Get(c.existing))
    /\ UNCHANGED <<machineDefinition, adapterFaults, heapLimit, store, sets, savedSnapshots, clock>>

\* load resumed: null, or an actor wrapping the loaded snapshot
GetActorReturn(p) ==
    /\ pc[p] = "get_load"
    /\ LET c == call[p]
       IN  IF ~c.ok
           THEN /\ Raise(p, c, AdapterError)
                /\ UNCHANGED <<actors, parents>>
           ELSE IF IsNull(c.existing)
           THEN /\ Return(p, c, 0)
                /\ UNCHANGED <<actors, parents>>
           ELSE ReturnNewActor(p, c, Get(c.existing))
    /\ UNCHANGED <<machineDefinition, adapterFaults, heapLimit, store, sets, savedSnapshots, clock>>

-----------------------------------------------------------------------------
(* createActorFromSnapshot *)

\* the snapshots handed to createActorFromSnapshot: of an order in a state of
\* the definition, or in a state that the definition does not have
Snapshots ==
    [id : {"A"}, state : {"pending", "archived"}, context : InitialContexts,
     createdAt : {0}, updatedAt : {0}]

\* createActorFromSnapshot(snapshot, machineDefinition, adapter): synchronous,
\* the snapshot is wrapped as it is
CreateActorFromSnapshot(snapshot) ==
    /\ Len(actors) + Cardinality({q \in DOMAIN pc : Running(q)}) < heapLimit
    /\ actors' = Append(actors, ActorImpl(snapshot))
    /\ parents' = Follow(parents, 0)
    /\ UNCHANGED <<machineDefinition, adapterFaults, heapLimit, store, sets,
                   savedSnapshots, clock, pc, call>>

-----------------------------------------------------------------------------
(* The clock *)

\* time passes between two readings of `new Date()`
Tick ==
    /\ clock + TickStep <= MaxTicks * TickStep
    /\ clock' = clock + TickStep
    /\ UNCHANGED <<machineDefinition, adapterFaults, heapLimit, store, sets, savedSnapshots, actors, parents, pc, call>>

-----------------------------------------------------------------------------
(* Specifications *)

InitState(names, procs, limit, faults, recorded, followed) ==
    /\ machineDefinition \in names
    /\ adapterFaults = faults
    /\ heapLimit = limit
    /\ store = undefined
    /\ sets = 0
    /\ savedSnapshots = recorded
    /\ clock = 0
    /\ actors = <<>>
    /\ parents = followed
    /\ pc = [p \in procs |-> "idle"]
    /\ call = [p \in procs |-> NoCall]

\* one caller that awaits each call before making the next
Init == InitState({"workflowMachine", "failingOrderMachine"}, {"p1"}, MaxActors, FALSE, null, null)

\* two callers whose calls interleave at the awaits
InitConcurrent == InitState({"asyncOrderMachine"}, Procs, MaxActorsConcurrent, FALSE, null, null)

\* one caller and a backend that may reject commands
InitFaulty == InitState({"workflowMachine"}, {"p1"}, MaxActors, TRUE, null, null)

\* one caller, and a spy that records what adapter.save is called with
InitRecorded == InitState({"workflowMachine"}, {"p1"}, MaxActors, FALSE, Some(<<>>), null)

\* one caller and a definition whose targets nobody validated
InitUnvalidated == InitState({"unvalidatedMachine"}, {"p1"}, MaxActors, FALSE, null, null)

\* one caller working on one id with the order machines of the tests, the
\* lineage of every actor being followed
InitLineage ==
    InitState({"failingOrderMachine", "asyncOrderMachine"},
              {"p1"}, MaxActorsLineage, FALSE, null, Some(<<>>))

\* the same with the traffic light
InitTrafficLight ==
    InitState({"trafficLightMachine"}, {"p1"}, MaxActorsLineage, FALSE, null, Some(<<>>))

\* two callers, one for the synchronous and one for the asynchronous entries
InitSyncAsync ==
    InitState({"syncAsyncMachine"}, Procs, MaxActorsConcurrent, FALSE, null, null)

\* two callers of the failing-order machine
InitOverwrite ==
    InitState({"failingOrderMachine"}, Procs, MaxActors, FALSE, null, null)

\* one caller of the failing-order machine, the lineage of every actor being
\* followed
InitFromSnapshot ==
    InitState({"failingOrderMachine"}, {"p1"}, MaxActors, FALSE, null, Some(<<>>))

\* one caller of the self-transition machine, the lineage of every actor
\* being followed
InitSelfTransition ==
    InitState({"selfTransitionMachine"}, {"p1"}, MaxActorsLineage, FALSE, null, Some(<<>>))

\* one caller and a definition with an entry that never resolves
InitHanging == InitState({"hangingMachine"}, {"p1"}, MaxActors, FALSE, null, null)

\* the calls a caller may make with the ids it knows, and the passing of time
Calls(ids, contexts) ==
    \/ \E p \in DOMAIN pc, a \in 1..Len(actors), payload \in Payloads :
         \E event \in Events(define(machineDefinition).states) :
           SendCall(p, a, event, payload)
    \/ \E p \in DOMAIN pc : SendEntrySettled(p)
    \/ \E p \in DOMAIN pc : SendReturn(p)
    \/ \E p \in DOMAIN pc, id \in ids :
         \E context \in contexts[p] : CreateActorCall(p, id, context)
    \/ \E p \in DOMAIN pc : CreateActorLoaded(p)
    \/ \E p \in DOMAIN pc : CreateActorReturn(p)
    \/ \E p \in DOMAIN pc, id \in ids : GetActorCall(p, id)
    \/ \E p \in DOMAIN pc : GetActorReturn(p)

Next == Calls(Ids, [p \in Procs |-> InitialContexts]) \/ Tick

\* two callers racing on one id, each creating with a context of its own;
\* the clock stands still
NextConcurrent ==
    Calls({"A"}, [p \in Procs |-> IF p = "p1" THEN {[attempts |-> 0]}
                                              ELSE {[attempts |-> 1]}])

Spec == Init /\ [][Next]_vars

SpecConcurrent == InitConcurrent /\ [][NextConcurrent]_vars

\* the calls on one id, and the passing of time
NextFaulty == Calls({"A"}, [p \in Procs |-> InitialContexts]) \/ Tick

SpecFaulty == InitFaulty /\ [][NextFaulty]_vars

SpecUnvalidated == InitUnvalidated /\ [][Next]_vars

NextLineage == Calls({"A"}, [p \in Procs |-> {[attempts |-> 0]}])

SpecLineage == InitLineage /\ [][NextLineage]_vars

\* two callers racing to create one id, each with a context of its own, and
\* sending `process` to the actors they got, while time passes; the entry
\* of the machine is synchronous, so no send awaits an entry
NextOverwrite ==
    \/ \E p \in DOMAIN pc, a \in 1..Len(actors), payload \in Payloads :
         SendCall(p, a, "process", payload)
    \/ \E p \in DOMAIN pc : SendReturn(p)
    \/ \E p \in DOMAIN pc :
         CreateActorCall(p, "A", [attempts |-> IF p = "p1" THEN 0 ELSE 1])
    \/ \E p \in DOMAIN pc : CreateActorLoaded(p)
    \/ \E p \in DOMAIN pc : CreateActorReturn(p)
    \/ Tick

SpecOverwrite == InitOverwrite /\ [][NextOverwrite]_vars

\* actors are built from snapshots and sent events, as in the actor tests;
\* the entry of the machine is synchronous, so no send awaits an entry
NextFromSnapshot ==
    \/ \E snapshot \in Snapshots : CreateActorFromSnapshot(snapshot)
    \/ \E p \in DOMAIN pc, a \in 1..Len(actors), payload \in Payloads :
         \E event \in {"process", "retry"} : SendCall(p, a, event, payload)
    \/ \E p \in DOMAIN pc : SendReturn(p)

SpecFromSnapshot == InitFromSnapshot /\ [][NextFromSnapshot]_vars

\* a counter is created and sent `increment` and `touch` while time passes;
\* the entry of the machine is synchronous, so no send awaits an entry
NextSelfTransition ==
    \/ \E p \in DOMAIN pc, a \in 1..Len(actors) :
         \E event \in {"increment", "touch"} :
           SendCall(p, a, event, [shouldFail |-> FALSE])
    \/ \E p \in DOMAIN pc : SendReturn(p)
    \/ \E p \in DOMAIN pc : CreateActorCall(p, "A", [count |-> 0])
    \/ \E p \in DOMAIN pc : CreateActorLoaded(p)
    \/ \E p \in DOMAIN pc : CreateActorReturn(p)
    \/ Tick

SpecSelfTransition == InitSelfTransition /\ [][NextSelfTransition]_vars

\* the same calls on an order that carries an optional key which the entry
\* does not copy into the context it returns
NextWholeContext ==
    Calls({"A"}, [p \in Procs |-> {[attempts |-> 0, note |-> "gift"]}])

SpecWholeContext == InitLineage /\ [][NextWholeContext]_vars

\* p1 creates the actor and sends the events that lead to the synchronous
\* entries, p2 those that lead to the asynchronous ones
NextSyncAsync ==
    \/ \E a \in 1..Len(actors), payload \in Payloads, event \in {"process", "fail"} :
         SendCall("p1", a, event, payload)
    \/ \E a \in 1..Len(actors), payload \in Payloads, event \in {"fetch", "reject"} :
         SendCall("p2", a, event, payload)
    \/ \E p \in DOMAIN pc : SendEntrySettled(p)
    \/ \E p \in DOMAIN pc : SendReturn(p)
    \/ \E context \in InitialContexts : CreateActorCall("p1", "A", context)
    \/ CreateActorLoaded("p1")
    \/ CreateActorReturn("p1")

SpecSyncAsync == InitSyncAsync /\ [][NextSyncAsync]_vars

\* the calls on a machine none of whose states has an entry: no send ever
\* awaits one
NextTrafficLight ==
    \/ \E p \in DOMAIN pc, a \in 1..Len(actors), payload \in Payloads :
         SendCall(p, a, "next", payload)
    \/ \E p \in DOMAIN pc : SendReturn(p)
    \/ \E p \in DOMAIN pc, id \in Ids : CreateActorCall(p, id, [cycleCount |-> 0])
    \/ \E p \in DOMAIN pc : CreateActorLoaded(p)
    \/ \E p \in DOMAIN pc : CreateActorReturn(p)
    \/ \E p \in DOMAIN pc, id \in Ids : GetActorCall(p, id)
    \/ \E p \in DOMAIN pc : GetActorReturn(p)

SpecTrafficLight == InitTrafficLight /\ [][NextTrafficLight]_vars

\* the event loop resumes every await whose promise has settled
SpecHanging ==
    /\ InitHanging
    /\ [][Next]_vars
    /\ \A p \in {"p1"} :
         /\ WF_vars(SendEntrySettled(p))
         /\ WF_vars(SendReturn(p))

SpecRecorded == InitRecorded /\ [][Next]_vars


-----------------------------------------------------------------------------
(* Vocabulary of the properties *)

\* the definition the actors run on
States == define(machineDefinition).states

\* a send that is over
DoneSend(p) == pc[p] = "done" /\ call[p].op = "send"

\* the receiver of a send
Receiver(p) == actors[call[p].receiver]

\* the event of the send is a key of the `on` table of the receiver's state
Matched(p) ==
    \E s \in DOMAIN States :
      /\ s = Receiver(p).state
      /\ "on" \in DOMAIN States[s]
      /\ call[p].event \in DOMAIN States[s].on

\* the state the matched event targets, and its node
Target(p) == States[Receiver(p).state].on[call[p].event].target
TargetNode(p) == IF Target(p) \in DOMAIN States THEN States[Target(p)] ELSE undefined

\* the target has an entry function, and what it does on the send's arguments
Enters(p) == Matched(p) /\ "entry" \in DOMAIN TargetNode(p)
EntryOutcome(p) == CallEntry(TargetNode(p).entry, Receiver(p).context, call[p].payload)
EntrySucceeds(p) == Enters(p) /\ EntryOutcome(p).ok
EntryFails(p) == Enters(p) /\ ~EntryOutcome(p).ok

\* the resting state by the entry / onSuccess / onError rule
RestingState(p) ==
    IF ~Enters(p) THEN Target(p)
    ELSE IF EntryOutcome(p).ok THEN TargetNode(p).onSuccess.target
    ELSE TargetNode(p).onError.target

-----------------------------------------------------------------------------
(* C1..C10 *)

\* C1: a send whose event is not a key of the `on` table of the actor's state
\* returns the very same actor (same reference, hence same id, state and
\* context), builds no snapshot and invokes no save.
C1_UnhandledEventIsNoOp ==
    \A p \in DOMAIN pc :
      (DoneSend(p) /\ ~Matched(p)) =>
        /\ call[p].outcome = "returned"
        /\ call[p].result = call[p].receiver
        /\ call[p].saves = 0
        /\ IsNull(call[p].newSnapshot)

C1_Witness ==
    \E p \in DOMAIN pc :
      /\ DoneSend(p) /\ ~Matched(p)
      /\ call[p].result = call[p].receiver
      /\ Receiver(p).state = "completed"
      /\ call[p].event = "process"

\* C2: a send whose event matches and which resolves calls save exactly once,
\* and the state of the saved snapshot (the one handed to save, and the one
\* then held by the store) is the resting state of the entry / onSuccess /
\* onError rule.
C2_PersistOncePerTransition ==
    \A p \in DOMAIN pc :
      (DoneSend(p) /\ Matched(p) /\ call[p].outcome = "returned") =>
        /\ call[p].saves = 1
        /\ Get(call[p].newSnapshot).state = RestingState(p)
        /\ Receiver(p).id \in DOMAIN store
        /\ store[Receiver(p).id].state = RestingState(p)

C2_Witness ==
    \E p \in DOMAIN pc :
      /\ DoneSend(p) /\ EntryFails(p) /\ call[p].outcome = "returned"
      /\ call[p].saves = 1
      /\ store[Receiver(p).id].state = "failed"

\* C3: when the matched event targets a state whose entry returns a context,
\* synchronously or asynchronously, and whose onSuccess target is T, send
\* yields an actor in state T with the returned context.
C3_EntrySuccessRouting ==
    \A p \in DOMAIN pc :
      (DoneSend(p) /\ EntrySucceeds(p)) =>
        /\ call[p].outcome = "returned"
        /\ call[p].result \in 1..Len(actors)
        /\ actors[call[p].result].state = TargetNode(p).onSuccess.target
        /\ actors[call[p].result].context = EntryOutcome(p).value

C3_Witness ==
    \E p \in DOMAIN pc :
      /\ DoneSend(p) /\ EntrySucceeds(p)
      /\ TargetNode(p).entry.async
      /\ actors[call[p].result].state = "completed"
      /\ actors[call[p].result].context = [attempts |-> Receiver(p).context.attempts + 1]

\* C4: when the matched event targets a state whose entry throws or rejects
\* and whose onError target is T, send does not raise: it yields an actor in
\* state T whose context is the receiver's context.
C4_EntryFailureRouting ==
    \A p \in DOMAIN pc :
      (DoneSend(p) /\ EntryFails(p) /\ "onError" \in DOMAIN TargetNode(p)) =>
        /\ call[p].outcome = "returned"
        /\ call[p].result \in 1..Len(actors)
        /\ actors[call[p].result].state = TargetNode(p).onError.target
        /\ actors[call[p].result].context = Receiver(p).context

C4_Witness ==
    \E p \in DOMAIN pc :
      /\ DoneSend(p) /\ EntryFails(p) /\ "onError" \in DOMAIN TargetNode(p)
      /\ actors[call[p].result].state = "failed"
      /\ actors[call[p].result].context = Receiver(p).context

\* C5: when the matched event targets a state whose entry throws and which
\* has no onError, send raises that same failure, builds no snapshot and
\* never invokes save.
C5_EntryFailureRethrown ==
    \A p \in DOMAIN pc :
      (DoneSend(p) /\ EntryFails(p) /\ "onError" \notin DOMAIN TargetNode(p)) =>
        /\ call[p].outcome = "raised"
        /\ call[p].error = EntryOutcome(p).error
        /\ IsNull(call[p].newSnapshot)
        /\ call[p].saves = 0
        /\ call[p].result = 0

C5_Witness ==
    \E p \in DOMAIN pc :
      /\ DoneSend(p) /\ EntryFails(p) /\ "onError" \notin DOMAIN TargetNode(p)
      /\ call[p].outcome = "raised"
      /\ call[p].error = Some(Error("Processing failed"))

\* C6: a send that fails because the entry threw with no onError changes
\* neither the stored snapshots nor any actor (the receiver keeps its state
\* and context); the receiver accepts further events; and a getActor that
\* finds a snapshot returns exactly the stored state, context and timestamps.
C6_FailedSendIsNotFatal ==
    /\ [][\A p \in DOMAIN pc :
            (/\ call'[p] # call[p]
             /\ pc'[p] = "done"
             /\ call'[p].op = "send"
             /\ call'[p].outcome = "raised")
            => (store' = store /\ actors' = actors)]_vars
    /\ [](\A p \in DOMAIN pc :
            (DoneSend(p) /\ call[p].outcome = "raised") =>
              \A event \in Events(States), payload \in Payloads :
                ENABLED SendCall(p, call[p].receiver, event, payload))
    /\ [](\A p \in DOMAIN pc :
            (pc[p] = "done" /\ call[p].op = "getActor" /\ call[p].result # 0) =>
              /\ call[p].id \in DOMAIN store
              /\ actors[call[p].result].state = store[call[p].id].state
              /\ actors[call[p].result].context = store[call[p].id].context
              /\ toISOString(actors[call[p].result].snapshot.updatedAt)
                   = store[call[p].id].updatedAt)

C6_Witness ==
    \E p \in DOMAIN pc :
      /\ DoneSend(p) /\ call[p].outcome = "raised"
      /\ EntryFails(p) /\ "onError" \notin DOMAIN TargetNode(p)
      /\ Receiver(p).state = "failed"
      /\ store[Receiver(p).id].state = "failed"
      /\ store[Receiver(p).id].context = Receiver(p).context

\* C7: a send that performs a transition returns an actor that is another
\* object than the receiver, and no step changes the state, the context or
\* the snapshot of an actor that exists, the receiver included.
C7_ActorsAreImmutable ==
    /\ [](\A p \in DOMAIN pc :
            (DoneSend(p) /\ Matched(p) /\ call[p].outcome = "returned") =>
              /\ call[p].result \in 1..Len(actors)
              /\ call[p].result # call[p].receiver)
    /\ [][\A a \in 1..Len(actors) :
            a \in 1..Len(actors') /\ actors'[a] = actors[a]]_vars

C7_Witness ==
    \E p \in DOMAIN pc :
      /\ DoneSend(p) /\ Matched(p) /\ call[p].outcome = "returned"
      /\ call[p].result # call[p].receiver
      /\ Receiver(p).state = "pending"
      /\ actors[call[p].result].state = "completed"
      /\ actors[call[p].result].context # Receiver(p).context

\* C8: a createActor for an id that has a stored snapshot fails with
\* ActorAlreadyExists carrying that id, does not invoke the adapter's create,
\* and leaves the stored snapshot as the earlier call wrote it.
C8_DuplicateCreateRejected ==
    [][\A p \in DOMAIN pc :
         (/\ pc[p] = "create_load"
          /\ call[p].id \in DOMAIN store
          /\ pc'[p] # pc[p])
         => (/\ pc'[p] = "done"
             /\ call'[p].outcome = "raised"
             /\ call'[p].error = Some(ActorAlreadyExistsError(call[p].id))
             /\ call'[p].creates = 0
             /\ store' = store)]_vars

C8_Witness ==
    \E p \in DOMAIN pc :
      /\ pc[p] = "done" /\ call[p].op = "createActor"
      /\ call[p].outcome = "raised"
      /\ call[p].error = Some(ActorAlreadyExistsError("A"))
      /\ store["A"].state = "pending"
      /\ store["A"].context # call[p].context

\* two sends that are over, made on two actor objects that wrap the same
\* snapshot of one id, both of which performed a transition
RacingSends(p, q) ==
    /\ p # q
    /\ DoneSend(p) /\ DoneSend(q)
    /\ Matched(p) /\ Matched(q)
    /\ call[p].receiver # call[q].receiver
    /\ Receiver(p).snapshot = Receiver(q).snapshot

\* C9: of two sends made on two actors that hold the same snapshot of one
\* id, each calls the entry with that old context and calls save once, both
\* return an actor, and the store holds the snapshot of one of them: of the
\* one whose save came second, the other's transition being lost.
C9_ConcurrentSendsLoseAnUpdate ==
    \A p, q \in DOMAIN pc :
      RacingSends(p, q) =>
        /\ call[p].outcome = "returned" /\ call[q].outcome = "returned"
        /\ call[p].saves = 1 /\ call[q].saves = 1
        /\ Get(call[p].entryArgs).context = Receiver(p).context
        /\ Get(call[q].entryArgs).context = Receiver(p).context
        /\ store[Receiver(p).id] \in {JSONStringify(Get(call[p].newSnapshot)),
                                      JSONStringify(Get(call[q].newSnapshot))}
        /\ (call[p].setNo < call[q].setNo
              => store[Receiver(p).id] = JSONStringify(Get(call[q].newSnapshot)))

C9_Witness ==
    \E p, q \in DOMAIN pc :
      /\ RacingSends(p, q)
      /\ call[p].outcome = "returned" /\ call[q].outcome = "returned"
      /\ actors[call[p].result].state = "failed"
      /\ actors[call[q].result].state = "completed"
      /\ call[p].setNo < call[q].setNo
      /\ store[Receiver(p).id].state = "completed"
      /\ store[Receiver(p).id] # JSONStringify(actors[call[p].result].snapshot)

\* two createActor calls for one id which both saw `load` return nothing
RacingCreates(p, q) ==
    /\ p # q
    /\ pc[p] = "done" /\ call[p].op = "createActor"
    /\ pc[q] = "done" /\ call[q].op = "createActor"
    /\ call[p].id = call[q].id
    /\ IsNull(call[p].existing) /\ IsNull(call[q].existing)

\* C10: two createActor calls for one id that both saw `load` return nothing
\* both call create and both return an actor, neither raises, and the store
\* holds the snapshot of the create that came second.
C10_ConcurrentCreatesBothSucceed ==
    \A p, q \in DOMAIN pc :
      RacingCreates(p, q) =>
        /\ call[p].outcome = "returned" /\ call[q].outcome = "returned"
        /\ call[p].creates = 1 /\ call[q].creates = 1
        /\ IsNull(call[p].error) /\ IsNull(call[q].error)
        /\ (call[p].setNo < call[q].setNo
              => store[call[p].id] = JSONStringify(Get(call[q].newSnapshot)))

C10_Witness ==
    \E p, q \in DOMAIN pc :
      /\ RacingCreates(p, q)
      /\ call[p].outcome = "returned" /\ call[q].outcome = "returned"
      /\ call[p].setNo < call[q].setNo
      /\ actors[call[p].result].context = [attempts |-> 0]
      /\ store[call[p].id].context = [attempts |-> 1]

-----------------------------------------------------------------------------
(* C11..C20 *)

\* a send that is over and performed a transition
EffectiveSend(p) == DoneSend(p) /\ Matched(p) /\ call[p].outcome = "returned"

\* the actor a call returned
Returned(p) == actors[call[p].result]

\* C11: after a send that performed a transition, the record of the actor's
\* id decodes to the state and context of the actor the send returned; a
\* getActor(id) made next loads exactly that, and returns an actor whose state
\* and context are those of the snapshot it loaded.
C11_ReloadEqualsReturnedActor ==
    /\ [](\A p \in DOMAIN pc :
            EffectiveSend(p) =>
              LET loaded == LoadResult(ClientGet(store, Returned(p).id))
              IN  /\ ~IsNull(loaded)
                  /\ Get(loaded).state = Returned(p).state
                  /\ Get(loaded).context = Returned(p).context)
    /\ [][\A p \in DOMAIN pc :
            (/\ EffectiveSend(p)
             /\ pc'[p] = "get_load"
             /\ call'[p].id = Returned(p).id)
            => (/\ ~IsNull(call'[p].existing)
                /\ Get(call'[p].existing).state = Returned(p).state
                /\ Get(call'[p].existing).context = Returned(p).context)]_vars
    /\ [][\A p \in DOMAIN pc :
            (/\ pc[p] = "get_load"
             /\ pc'[p] = "done"
             /\ ~IsNull(call[p].existing))
            => (/\ call'[p].outcome = "returned"
                /\ call'[p].result = Len(actors')
                /\ actors'[call'[p].result].state = Get(call[p].existing).state
                /\ actors'[call'[p].result].context = Get(call[p].existing).context)]_vars

C11_Witness ==
    \E p \in DOMAIN pc :
      /\ pc[p] = "done" /\ call[p].op = "getActor" /\ call[p].result # 0
      /\ Returned(p).state = "failed"
      /\ \E a \in 1..Len(actors) :
           /\ a < call[p].result
           /\ actors[a].state = "failed"
           /\ actors[a].context = Returned(p).context
           /\ actors[a].snapshot.updatedAt = Returned(p).snapshot.updatedAt
           /\ actors[a].snapshot.updatedAt > actors[a].snapshot.createdAt

\* a step in which caller p starts a send on the actor its previous send
\* returned
ChainedSend(p) ==
    /\ EffectiveSend(p)
    /\ call'[p] # call[p]
    /\ call'[p].op = "send"
    /\ call'[p].receiver = call[p].result

\* C12: in a chain of sends, each made on the actor the previous one
\* returned: a send has returned a new actor only once its save is complete
\* (the actor is allocated when the await of save resumes, and the store then
\* holds the snapshot); so when the next send of the chain starts, and calls
\* its entry, the previous snapshot is stored and is what the entry sees, and
\* its own save comes later in the order of the client's commands.
C12_ChainIsSequential ==
    /\ [](\A p \in DOMAIN pc :
            (/\ call[p].op = "send"
             /\ call[p].result # 0
             /\ call[p].result # call[p].receiver)
            => (/\ pc[p] = "done"
                /\ call[p].saves = 1
                /\ call[p].setNo \in 1..sets))
    /\ [][\A p \in DOMAIN pc :
            (Len(actors') > Len(actors) /\ call'[p] # call[p] /\ call[p].op = "send")
            => (/\ pc[p] = "send_save"
                /\ call[p].saves = 1
                /\ store[Receiver(p).id] = JSONStringify(Get(call[p].newSnapshot))
                /\ actors'[Len(actors')].snapshot = Get(call[p].newSnapshot))]_vars
    /\ [][\A p \in DOMAIN pc :
            ChainedSend(p) =>
              /\ store[Returned(p).id] = JSONStringify(Returned(p).snapshot)
              /\ (call'[p].entries = 1
                    => Get(call'[p].entryArgs).context = Returned(p).context)
              /\ (call'[p].saves = 1 => call'[p].setNo > call[p].setNo)]_vars

C12_Witness ==
    \E p \in DOMAIN pc :
      /\ EffectiveSend(p)
      /\ call[p].receiver = 2 /\ call[p].result = 3
      /\ Receiver(p).state = "failed" /\ Returned(p).state = "completed"
      /\ Receiver(p).snapshot.updatedAt < Returned(p).snapshot.updatedAt
      /\ call[p].entries = 1
      /\ call[p].setNo = 3

\* C13: in every snapshot held by an actor, handed to save or create, or
\* persisted, `state` is a key of the `states` of the machine definition.
C13_StateIsAKeyOfStates ==
    /\ \A a \in 1..Len(actors) :
         /\ actors[a].state \in DOMAIN States
         /\ actors[a].snapshot.state \in DOMAIN States
    /\ \A id \in DOMAIN store : store[id].state \in DOMAIN States
    /\ \A p \in DOMAIN pc :
         ~IsNull(call[p].newSnapshot)
           => Get(call[p].newSnapshot).state \in DOMAIN States

\* a send that is over, whose target has an entry, and which returned an actor
EnteredAndReturned(p) ==
    DoneSend(p) /\ Enters(p) /\ call[p].outcome = "returned"

\* the onSuccess and onError targets of the target node
RoutingTargets(p) ==
    {TargetNode(p).onSuccess.target}
      \cup (IF "onError" \in DOMAIN TargetNode(p)
            THEN {TargetNode(p).onError.target} ELSE {})

\* C14 as claimed: when the target of the transition has an entry, the state
\* of the returned actor is the target's onSuccess.target or onError.target,
\* and never the entry-bearing target itself.
C14_NeverRestsInEntryTarget ==
    \A p \in DOMAIN pc :
      EnteredAndReturned(p) =>
        /\ Returned(p).state \in RoutingTargets(p)
        /\ Returned(p).state # Target(p)

\* C14, amended: when the target of the transition has an entry, the state of
\* the returned actor is the target's onSuccess.target if the entry succeeded
\* and its onError.target if it failed; it is the entry-bearing target itself
\* only when that onSuccess or onError target names it.
C14_RestsInSuccessOrErrorTarget ==
    \A p \in DOMAIN pc :
      EnteredAndReturned(p) =>
        /\ EntrySucceeds(p) => Returned(p).state = TargetNode(p).onSuccess.target
        /\ EntryFails(p) => Returned(p).state = TargetNode(p).onError.target
        /\ Returned(p).state = Target(p) => Target(p) \in RoutingTargets(p)

C14_Witness ==
    \E p \in DOMAIN pc :
      /\ EnteredAndReturned(p) /\ EntryFails(p)
      /\ Receiver(p).state = "idle"
      /\ Target(p) = "polling"
      /\ TargetNode(p).onError.target = "polling"
      /\ Returned(p).state = "polling"

\* C15: the snapshot a send builds, hands to save and wraps in the actor it
\* returns carries the createdAt of the receiver's snapshot; hence the actors
\* of one id, which all descend from the one created actor, by send or by a
\* reload of what a send stored, agree on createdAt, and so does the record.
C15_CreatedAtIsPreserved ==
    /\ [](\A p \in DOMAIN pc :
            (call[p].op = "send" /\ ~IsNull(call[p].newSnapshot)) =>
              Get(call[p].newSnapshot).createdAt = Receiver(p).snapshot.createdAt)
    /\ [](\A p \in DOMAIN pc :
            EffectiveSend(p) =>
              Returned(p).snapshot.createdAt = Receiver(p).snapshot.createdAt)
    /\ [](\A a, b \in 1..Len(actors) :
            actors[a].id = actors[b].id =>
              /\ actors[a].snapshot.createdAt = actors[b].snapshot.createdAt
              /\ store[actors[a].id].createdAt
                   = toISOString(actors[a].snapshot.createdAt))

C15_Witness ==
    \E p \in DOMAIN pc :
      /\ EffectiveSend(p)
      /\ call[p].receiver = 2 /\ call[p].result = 3
      /\ actors[1].id = actors[3].id
      /\ actors[1].state = "pending" /\ actors[2].state = "completed"
      /\ Returned(p).snapshot.createdAt = actors[1].snapshot.createdAt
      /\ Returned(p).snapshot.updatedAt > actors[1].snapshot.createdAt

\* C16: the clock never goes back; the step of a send that builds and saves
\* the snapshot stamps updatedAt with the time of that step; so the actor a
\* send returns is not older than its receiver, and the updatedAt of the
\* record of an id never decreases; a send of an unhandled event returns the
\* receiver, with its updatedAt, and leaves the store as it is.
C16_UpdatedAtFollowsTheClock ==
    /\ [][clock' >= clock]_vars
    /\ [][\A p \in DOMAIN pc :
            (call'[p] # call[p] /\ call'[p].op = "send" /\ pc'[p] = "send_save")
            => (/\ Get(call'[p].newSnapshot).updatedAt = clock
                /\ store'[Get(call'[p].newSnapshot).id].updatedAt = toISOString(clock))]_vars
    /\ [](\A p \in DOMAIN pc :
            EffectiveSend(p) =>
              Returned(p).snapshot.updatedAt >= Receiver(p).snapshot.updatedAt)
    /\ [][\A id \in DOMAIN store :
            DateFromISO(store'[id].updatedAt) >= DateFromISO(store[id].updatedAt)]_vars
    /\ [][\A p \in DOMAIN pc :
            (/\ call'[p] # call[p] /\ call'[p].op = "send"
             /\ IsNull(Transition(States, actors[call'[p].receiver].state,
                                   call'[p].event)))
            => (/\ store' = store
                /\ call'[p].result = call'[p].receiver
                /\ actors'[call'[p].result].snapshot.updatedAt
                     = actors[call'[p].receiver].snapshot.updatedAt)]_vars

C16_Witness ==
    \E p \in DOMAIN pc :
      /\ EffectiveSend(p)
      /\ Returned(p).snapshot.updatedAt = clock
      /\ Receiver(p).snapshot.updatedAt < clock
      /\ DateFromISO(store[Returned(p).id].updatedAt) = clock
      /\ store[Returned(p).id].updatedAt.ms # 0

\* a createActor that is over
DoneCreate(p) == pc[p] = "done" /\ call[p].op = "createActor"

\* C17: a createActor(id, context) whose load found nothing, which is the
\* case exactly when the store had no record of id at the call, returns an
\* actor with that id, in the `initial` state of the definition, with the
\* given context, and the store then holds the snapshot of that actor under
\* id.
C17_CreateStoresInitialSnapshot ==
    /\ [][\A p \in DOMAIN pc :
            (pc'[p] = "create_load" /\ pc[p] # "create_load")
            => (IsNull(call'[p].existing) <=> call'[p].id \notin DOMAIN store)]_vars
    /\ [](\A p \in DOMAIN pc :
            (DoneCreate(p) /\ IsNull(call[p].existing)) =>
              /\ call[p].outcome = "returned"
              /\ call[p].creates = 1
              /\ call[p].result \in 1..Len(actors)
              /\ Returned(p).id = call[p].id
              /\ Returned(p).state = define(machineDefinition).initial
              /\ Returned(p).context = call[p].context
              /\ call[p].id \in DOMAIN store
              /\ store[call[p].id] = JSONStringify(Returned(p).snapshot))

C17_Witness ==
    \E p \in DOMAIN pc :
      /\ DoneCreate(p) /\ IsNull(call[p].existing)
      /\ call[p].id = "B"
      /\ "A" \in DOMAIN store
      /\ Returned(p).id = "B"
      /\ Returned(p).state = "pending"
      /\ Returned(p).context = [attempts |-> 1]
      /\ store["B"].context = [attempts |-> 1]
      /\ store["B"].createdAt # store["A"].createdAt

\* a getActor that is over
DoneGet(p) == pc[p] = "done" /\ call[p].op = "getActor"

\* C18: a getActor(id) made when the store has no record of id loads nothing
\* and returns null without raising; made when the store has a record, it
\* returns a new actor with that id whose snapshot is the one the record
\* decodes to (and encodes back to the record); neither of its steps writes
\* to the store, and it invokes neither create nor save.
C18_GetActorReadsOnly ==
    /\ [][\A p \in DOMAIN pc :
            (pc'[p] = "get_load" /\ pc[p] # "get_load")
            => (/\ store' = store /\ sets' = sets
                /\ (IsNull(call'[p].existing) <=> call'[p].id \notin DOMAIN store))]_vars
    /\ [][\A p \in DOMAIN pc :
            (pc[p] = "get_load" /\ pc'[p] # "get_load")
            => (/\ store' = store /\ sets' = sets
                /\ pc'[p] = "done"
                /\ call'[p].outcome = "returned"
                /\ IsNull(call'[p].error)
                /\ IF call[p].id \notin DOMAIN store
                   THEN call'[p].result = 0 /\ actors' = actors
                   ELSE /\ call'[p].result = Len(actors) + 1
                        /\ actors'[call'[p].result].id = call[p].id
                        /\ Some(actors'[call'[p].result].snapshot)
                             = LoadResult(Some(store[call[p].id]))
                        /\ JSONStringify(actors'[call'[p].result].snapshot)
                             = store[call[p].id])]_vars
    /\ [](\A p \in DOMAIN pc :
            call[p].op = "getActor" =>
              call[p].creates = 0 /\ call[p].saves = 0 /\ call[p].setNo = 0)

C18_Witness ==
    \E p \in DOMAIN pc :
      /\ DoneGet(p)
      /\ call[p].outcome = "returned"
      /\ call[p].result = 0
      /\ call[p].id = "B"
      /\ DOMAIN store = {"A"}
      /\ store["A"].state = "completed"

\* C19: a send whose event matches and whose target has no entry calls no
\* entry and returns an actor whose state is the target of the transition and
\* whose context is the context of the receiver, with either payload.
C19_SimpleTransition ==
    \A p \in DOMAIN pc :
      (DoneSend(p) /\ Matched(p) /\ ~Enters(p)) =>
        /\ call[p].outcome = "returned"
        /\ call[p].entries = 0
        /\ call[p].result \in 1..Len(actors)
        /\ Returned(p).state = Target(p)
        /\ Returned(p).context = Receiver(p).context
        /\ Get(call[p].newSnapshot).context = Receiver(p).context

C19_Witness ==
    \E p \in DOMAIN pc :
      /\ DoneSend(p) /\ Matched(p) /\ ~Enters(p)
      /\ call[p].event = "skip"
      /\ call[p].payload.shouldFail
      /\ Receiver(p).state = "pending"
      /\ Returned(p).state = "completed"
      /\ Returned(p).context = [attempts |-> 1]

\* the snapshots the spy has recorded
Recorded == Get(savedSnapshots)

\* the step of p's send in which it builds its snapshot and calls save
SaveStep(p) ==
    call'[p] # call[p] /\ call'[p].op = "send" /\ pc'[p] = "send_save"

\* C20: the sequence of snapshots handed to save grows only in the step in
\* which a send calls save, by one element put at its end, which is the
\* snapshot the send built, in the resting state of its transition; a send
\* that is over has put there the snapshot of the actor it returned if it
\* performed a transition, and nothing if its event was unhandled or if it
\* raised; so the sequence has one element per transition performed (every
\* client.set that is not the create of an id), in the order of the
\* transitions.
C20_SavedSnapshotsAreTheTransitions ==
    /\ [][IF \E p \in DOMAIN pc : SaveStep(p)
          THEN \A p \in DOMAIN pc :
                 SaveStep(p) =>
                   /\ Get(savedSnapshots')
                        = Append(Recorded, Get(call'[p].newSnapshot))
                   /\ Get(call'[p].newSnapshot).state = RestingState(p)'
          ELSE savedSnapshots' = savedSnapshots]_vars
    /\ [](\A p \in DOMAIN pc :
            DoneSend(p) =>
              IF Matched(p) /\ call[p].outcome = "returned"
              THEN /\ call[p].saves = 1
                   /\ Recorded # <<>>
                   /\ Recorded[Len(Recorded)] = Returned(p).snapshot
                   /\ Recorded[Len(Recorded)].state = RestingState(p)
              ELSE /\ call[p].saves = 0
                   /\ IsNull(call[p].newSnapshot))
    /\ [](Len(Recorded) = sets - Cardinality(DOMAIN store))
    /\ [](\A i, j \in 1..Len(Recorded) :
            i < j => Recorded[i].updatedAt <= Recorded[j].updatedAt)

C20_Witness ==
    \E p \in DOMAIN pc :
      /\ EffectiveSend(p)
      /\ Len(Recorded) = 2
      /\ Recorded[1].state = "failed" /\ Recorded[1] = Receiver(p).snapshot
      /\ Recorded[2].state = "completed" /\ Recorded[2] = Returned(p).snapshot
      /\ Recorded[1].updatedAt < Recorded[2].updatedAt
      /\ sets = 3

-----------------------------------------------------------------------------
(* C21..C30 *)

\* a call that is over and whose last adapter command failed
AdapterFailed(p) == pc[p] = "done" /\ ~call[p].ok

\* C21: a call whose adapter command failed (the save of a send, the load or
\* the create of a createActor, the load of a getActor) raises the adapter's
\* failure as it is, returns no actor, and has issued the failed command
\* once; no other call raises the adapter's failure.
C21_AdapterFailurePropagates ==
    \A p \in DOMAIN pc :
      /\ AdapterFailed(p) =>
           /\ call[p].outcome = "raised"
           /\ call[p].error = Some(AdapterError)
           /\ call[p].result = 0
           /\ (call[p].op = "send"
                 => call[p].saves = 1 /\ call[p].setNo = 0)
           /\ (call[p].op = "createActor"
                 => /\ call[p].loads = 1 /\ call[p].creates <= 1
                    /\ call[p].setNo = 0
                    /\ (call[p].creates = 1 => IsNull(call[p].existing)))
           /\ (call[p].op = "getActor"
                 => call[p].loads = 1 /\ IsNull(call[p].existing))
      /\ (pc[p] = "done" /\ call[p].error = Some(AdapterError))
           => ~call[p].ok
      /\ call[p].result # 0 => call[p].ok

C21_Witness ==
    \E p \in DOMAIN pc :
      /\ AdapterFailed(p) /\ DoneSend(p) /\ EntrySucceeds(p)
      /\ call[p].outcome = "raised"
      /\ call[p].error = Some(AdapterError)
      /\ call[p].saves = 1
      /\ Get(call[p].newSnapshot).state = "completed"
      /\ store[Receiver(p).id] = JSONStringify(Receiver(p).snapshot)

\* a send whose target has an entry that returned a promise nobody settles
AwaitsForever(p) ==
    /\ call[p].op = "send"
    /\ Enters(p)
    /\ TargetNode(p).entry.fn = "neverResolves"

\* a send that awaits an entry that settles, or the adapter's save
AwaitsSettling(p) ==
    /\ call[p].op = "send"
    /\ pc[p] \in {"send_entry", "send_save"}
    /\ ~AwaitsForever(p)

\* C22: a send whose entry never resolves stays at the await of the entry
\* for ever: it has no outcome (no actor, no error), it has built no snapshot
\* and has not called save, and no step moves it or writes to the store;
\* whereas a send whose entry settles, and whose save completes, is
\* eventually over.
C22_HangsIffEntryNeverResolves ==
    /\ [](\A p \in DOMAIN pc :
            AwaitsForever(p) =>
              /\ pc[p] = "send_entry"
              /\ call[p].outcome = "none"
              /\ call[p].result = 0
              /\ IsNull(call[p].error)
              /\ IsNull(call[p].newSnapshot)
              /\ call[p].saves = 0)
    /\ [][\A p \in DOMAIN pc :
            AwaitsForever(p) =>
              /\ pc'[p] = pc[p]
              /\ call'[p] = call[p]
              /\ store' = store
              /\ actors' = actors]_vars
    /\ \A p \in {"p1"} : AwaitsSettling(p) ~> DoneSend(p)

C22_Witness ==
    \E p \in DOMAIN pc :
      /\ AwaitsForever(p)
      /\ pc[p] = "send_entry"
      /\ call[p].event = "wait"
      /\ call[p].entries = 1
      /\ Receiver(p).state = "idle"
      /\ store[Receiver(p).id].state = "idle"
      /\ clock > Receiver(p).snapshot.updatedAt

\* the actor whose send returned actor a, 0 if a was built from a loaded or
\* created snapshot
Parent(a) == Get(parents)[a]

\* actors a, b, c, d are a call chain: each is what a send on the one before
\* returned, and a was built from the created snapshot
IsChain3(a, b, c, d) ==
    /\ Parent(a) = 0 /\ Parent(b) = a /\ Parent(c) = b /\ Parent(d) = c

\* C23: on the traffic-light machine every actor a send returned is in the
\* state `next` leads to from the state of its receiver, with the context of
\* its receiver; so a chain of three sends of `next` that starts from an
\* actor in `red` returns actors in `green`, `yellow` and `red`, all with the
\* context of the first.
C23_TrafficLightCycle ==
    machineDefinition = "trafficLightMachine" =>
      /\ \A a \in 1..Len(actors) :
           Parent(a) # 0 =>
             /\ actors[a].state
                  = trafficLightMachine.states[actors[Parent(a)].state].on.next.target
             /\ actors[a].context = actors[Parent(a)].context
      /\ \A a, b, c, d \in 1..Len(actors) :
           (IsChain3(a, b, c, d) /\ actors[a].state = "red") =>
             /\ <<actors[b].state, actors[c].state, actors[d].state>>
                  = <<"green", "yellow", "red">>
             /\ {actors[b].context, actors[c].context, actors[d].context}
                  = {actors[a].context}

C23_Witness ==
    /\ machineDefinition = "trafficLightMachine"
    /\ Len(actors) = 4
    /\ IsChain3(1, 2, 3, 4)
    /\ actors[1].state = "red" /\ actors[1].context = [cycleCount |-> 0]
    /\ actors[2].state = "green"
    /\ actors[3].state = "yellow"
    /\ actors[4].state = "red" /\ actors[4].context = [cycleCount |-> 0]
    /\ store[actors[1].id].state = "red"
    /\ sets = 4

\* C24: on the failing-order machine, a send of `process` with shouldFail
\* true to an actor in `pending` with attempts 0 returns an actor in `failed`
\* with attempts 0; and a send of `retry` with shouldFail false to the
\* `failed` actor that a send to such a `pending` actor returned returns an
\* actor in `completed` with attempts 1.
C24_FailThenRetry ==
    \A p \in DOMAIN pc :
      (machineDefinition = "failingOrderMachine" /\ DoneSend(p)) =>
        /\ (/\ call[p].event = "process" /\ call[p].payload.shouldFail
            /\ Receiver(p).state = "pending"
            /\ Receiver(p).context = [attempts |-> 0])
           => (/\ call[p].outcome = "returned"
               /\ Returned(p).state = "failed"
               /\ Returned(p).context = [attempts |-> 0]
               /\ Parent(call[p].result) = call[p].receiver)
        /\ (/\ call[p].event = "retry" /\ ~call[p].payload.shouldFail
            /\ Receiver(p).state = "failed"
            /\ Parent(call[p].receiver) # 0
            /\ actors[Parent(call[p].receiver)].state = "pending"
            /\ actors[Parent(call[p].receiver)].context = [attempts |-> 0])
           => (/\ Receiver(p).context = [attempts |-> 0]
               /\ call[p].outcome = "returned"
               /\ Returned(p).state = "completed"
               /\ Returned(p).context = [attempts |-> 1])

C24_Witness ==
    \E p \in DOMAIN pc :
      /\ machineDefinition = "failingOrderMachine"
      /\ DoneSend(p)
      /\ call[p].event = "retry" /\ ~call[p].payload.shouldFail
      /\ call[p].receiver = 2 /\ Parent(2) = 1 /\ Parent(1) = 0
      /\ actors[1].state = "pending" /\ actors[1].context = [attempts |-> 0]
      /\ actors[2].state = "failed" /\ actors[2].context = [attempts |-> 0]
      /\ Returned(p).state = "completed"
      /\ Returned(p).context = [attempts |-> 1]
      /\ Parent(call[p].result) = 2

\* two sends that are over, made on the same actor with the same payload, one
\* of an event that leads to a synchronous entry and one of the event that
\* leads to the asynchronous entry with the same function and the same
\* onSuccess and onError
SyncAsyncTwins(p, q) ==
    /\ DoneSend(p) /\ DoneSend(q)
    /\ call[p].receiver = call[q].receiver
    /\ call[p].payload = call[q].payload
    /\ Enters(p) /\ Enters(q)
    /\ ~TargetNode(p).entry.async /\ TargetNode(q).entry.async
    /\ TargetNode(p).entry.fn = TargetNode(q).entry.fn
    /\ [k \in DOMAIN TargetNode(p) \ {"entry"} |-> TargetNode(p)[k]]
         = [k \in DOMAIN TargetNode(q) \ {"entry"} |-> TargetNode(q)[k]]

\* C25: a send through a synchronous entry and a send through an
\* asynchronous entry that computes the same have the same outcome: both
\* return an actor in the same state with the same context after one save,
\* or both raise the same failure after no save.
C25_SyncAsyncAgree ==
    \A p, q \in DOMAIN pc :
      SyncAsyncTwins(p, q) =>
        /\ call[p].outcome = call[q].outcome
        /\ call[p].error = call[q].error
        /\ call[p].entries = call[q].entries
        /\ call[p].saves = call[q].saves
        /\ (call[p].result = 0) = (call[q].result = 0)
        /\ call[p].result # 0 =>
             /\ Returned(p).state = Returned(q).state
             /\ Returned(p).context = Returned(q).context
             /\ Get(call[p].newSnapshot).state = Get(call[q].newSnapshot).state

C25_Witness ==
    \E p, q \in DOMAIN pc :
      /\ SyncAsyncTwins(p, q)
      /\ call[p].event = "process" /\ call[q].event = "fetch"
      /\ call[p].payload.shouldFail
      /\ Returned(p).state = "error" /\ Returned(q).state = "error"
      /\ Returned(q).context = Receiver(q).context
      /\ call[p].result # call[q].result

\* a step in which a call of p has the client write a record
SetStep(p) == sets' = sets + 1 /\ call'[p].setNo = sets'

\* a step in which p starts a call of load that the client answers
LoadStep(p) ==
    /\ pc'[p] \in {"get_load", "create_load"} /\ pc'[p] # pc[p]
    /\ call'[p].ok

\* C26: once create or save has written a snapshot, load of its id gives a
\* snapshot equal to it in id, state, context, createdAt and updatedAt, the
\* two timestamps having gone through their ISO-8601 text; every load gives
\* null for an id without a record, and for the others the snapshot whose
\* text is the record.
C26_LoadAfterSaveRoundTrips ==
    /\ [][\A p \in DOMAIN pc :
            SetStep(p) =>
              LET snapshot == Get(call'[p].newSnapshot)
                  loaded   == LoadResult(ClientGet(store', snapshot.id))
              IN  /\ ~IsNull(loaded)
                  /\ Get(loaded).id = snapshot.id
                  /\ Get(loaded).state = snapshot.state
                  /\ Get(loaded).context = snapshot.context
                  /\ Get(loaded).createdAt = snapshot.createdAt
                  /\ Get(loaded).updatedAt = snapshot.updatedAt]_vars
    /\ [][\A p \in DOMAIN pc :
            LoadStep(p) =>
              IF call'[p].id \in DOMAIN store
              THEN /\ ~IsNull(call'[p].existing)
                   /\ JSONStringify(Get(call'[p].existing)) = store[call'[p].id]
              ELSE IsNull(call'[p].existing)]_vars

C26_Witness ==
    \E p \in DOMAIN pc :
      /\ DoneGet(p) /\ call[p].result # 0
      /\ store[call[p].id].createdAt = [sec |-> 0, ms |-> 0]
      /\ store[call[p].id].updatedAt = [sec |-> 0, ms |-> TickStep]
      /\ Returned(p).snapshot.createdAt = 0
      /\ Returned(p).snapshot.updatedAt = TickStep
      /\ \E a \in 1..Len(actors) :
           a < call[p].result /\ actors[a].snapshot = Returned(p).snapshot

\* the step of p's createActor in which it calls the adapter's create
CreateStep(p) == pc[p] = "create_load" /\ pc'[p] = "create_create"

\* C27: the snapshot that the adapter's create builds has the id and the
\* context createActor was given and the initial state it passes on, and its
\* createdAt and updatedAt are one instant, the time of the call; if the
\* client accepts the write, the record of the id is the text of that
\* snapshot, with equal timestamps; and the actor createActor then returns
\* wraps that snapshot.
C27_CreateStampsOneInstant ==
    /\ [][\A p \in DOMAIN pc :
            CreateStep(p) =>
              LET snapshot == Get(call'[p].newSnapshot)
              IN  /\ snapshot.id = call[p].id
                  /\ snapshot.state = define(machineDefinition).initial
                  /\ snapshot.context = call[p].context
                  /\ snapshot.createdAt = clock
                  /\ snapshot.updatedAt = snapshot.createdAt
                  /\ call'[p].ok =>
                       /\ store'[call[p].id] = JSONStringify(snapshot)
                       /\ store'[call[p].id].createdAt = store'[call[p].id].updatedAt]_vars
    /\ [](\A p \in DOMAIN pc :
            (DoneCreate(p) /\ call[p].outcome = "returned") =>
              /\ Returned(p).snapshot = Get(call[p].newSnapshot)
              /\ Returned(p).snapshot.createdAt = Returned(p).snapshot.updatedAt)

C27_Witness ==
    \E p \in DOMAIN pc :
      /\ DoneCreate(p) /\ call[p].outcome = "returned"
      /\ Returned(p).snapshot.createdAt = TickStep
      /\ Returned(p).snapshot.updatedAt = TickStep
      /\ Returned(p).context = [attempts |-> 1]
      /\ store[call[p].id].createdAt = toISOString(TickStep)
      /\ store[call[p].id].updatedAt = toISOString(TickStep)

\* C28: a send that entered called the entry once, with the context of its
\* receiver and the payload it was given, also when the record of the id
\* holds another context by then; if the entry returned, the context of the
\* snapshot built and of the actor returned is the value the entry returned
\* for those arguments, whole: a key of the old context that the value lacks
\* is gone.
C28_EntryGetsReceiverContext ==
    \A p \in DOMAIN pc :
      (DoneSend(p) /\ Enters(p)) =>
        /\ call[p].entries = 1
        /\ call[p].entryArgs = Some([context |-> Receiver(p).context,
                                     payload |-> call[p].payload])
        /\ EntrySucceeds(p) =>
             /\ call[p].outcome = "returned"
             /\ Returned(p).context = EntryOutcome(p).value
             /\ Get(call[p].newSnapshot).context = EntryOutcome(p).value
             /\ DOMAIN Returned(p).context = DOMAIN EntryOutcome(p).value

C28_Witness ==
    \E p \in DOMAIN pc :
      /\ DoneSend(p) /\ EntrySucceeds(p)
      /\ Parent(call[p].receiver) # 0
      /\ actors[Parent(call[p].receiver)].state = "pending"
      /\ Receiver(p).state = "failed"
      /\ Receiver(p).context = [attempts |-> 0, note |-> "gift"]
      /\ Returned(p).context = [attempts |-> 1]
      /\ \E b \in 1..Len(actors) :
           /\ Parent(b) = Parent(call[p].receiver)
           /\ actors[b].state = "completed"
           /\ b < call[p].result

\* C29: when the backend accepts every command, each call of the adapter's
\* create and of save writes, whether or not the id has a record: the write
\* changes the record of that id only, the record then is the text of the
\* snapshot given, createdAt included, whatever the record was before, and
\* the call raises nothing.
C29_CreateAndSaveOverwrite ==
    /\ [][\A p \in DOMAIN pc :
            (CreateStep(p) \/ SaveStep(p)) =>
              LET snapshot == Get(call'[p].newSnapshot)
              IN  /\ SetStep(p)
                  /\ DOMAIN store' = DOMAIN store \cup {snapshot.id}
                  /\ \A id \in DOMAIN store \ {snapshot.id} : store'[id] = store[id]
                  /\ store'[snapshot.id] = JSONStringify(snapshot)
                  /\ store'[snapshot.id].createdAt = toISOString(snapshot.createdAt)
                  /\ IsNull(call'[p].error)]_vars
    /\ [][\A p \in DOMAIN pc :
            (pc[p] \in {"create_create", "send_save"} /\ pc'[p] # pc[p])
            => (pc'[p] = "done" /\ call'[p].outcome = "returned")]_vars

C29_Witness ==
    \E p, q \in DOMAIN pc :
      /\ DoneCreate(q) /\ call[q].outcome = "returned" /\ call[q].setNo = 2
      /\ Returned(q).snapshot.createdAt = TickStep
      /\ Returned(q).context = [attempts |-> 1]
      /\ EffectiveSend(p) /\ call[p].setNo = 3
      /\ Returned(p).snapshot.createdAt = 0
      /\ store["A"] = JSONStringify(Returned(p).snapshot)
      /\ store["A"].createdAt = toISOString(0)

\* the actors that sends returned
SendResults == {a \in 1..Len(actors) : Parent(a) # 0}

\* the actor that the send completed last returned
LastSendResult == CHOOSE a \in SendResults : \A b \in SendResults : b <= a

\* a send that is over and performed a transition, on an actor that an
\* earlier send had already given a successor
StaleSend(p) ==
    /\ EffectiveSend(p)
    /\ \E b \in SendResults : b # call[p].result /\ Parent(b) = call[p].receiver

\* C30: with one caller, a send on an actor that already has a successor
\* makes the transition of its event from the state of that actor, with the
\* context of that actor, and the record of the id then is the snapshot of
\* the actor it returned, so that it decodes to no other snapshot, those of
\* the successor and of its descendants included; whenever no save is under
\* way, the record is the snapshot of the actor returned by the send that
\* completed last, whichever actor that send was made on.
C30_StaleSendOverwrites ==
    /\ \A p \in DOMAIN pc :
         StaleSend(p) =>
           /\ Returned(p).state = RestingState(p)
           /\ Returned(p).context = IF EntrySucceeds(p) THEN EntryOutcome(p).value
                                                        ELSE Receiver(p).context
           /\ store[Receiver(p).id] = JSONStringify(Returned(p).snapshot)
           /\ \A b \in 1..Len(actors) :
                actors[b].snapshot # Returned(p).snapshot
                => LoadResult(ClientGet(store, Receiver(p).id)) # Some(actors[b].snapshot)
    /\ ((\A p \in DOMAIN pc : pc[p] # "send_save") /\ SendResults # {})
       => store[actors[LastSendResult].id] = JSONStringify(actors[LastSendResult].snapshot)

C30_Witness ==
    \E p \in DOMAIN pc :
      /\ StaleSend(p)
      /\ call[p].receiver = 1 /\ call[p].result = 4
      /\ Parent(2) = 1 /\ Parent(3) = 2
      /\ actors[3].state = "completed" /\ actors[3].context = [attempts |-> 1]
      /\ Returned(p).state = "failed" /\ Returned(p).context = [attempts |-> 0]
      /\ store["A"].state = "failed"
      /\ store["A"].context = [attempts |-> 0]

-----------------------------------------------------------------------------
(* C31..C38 *)

\* a send that is over and returned an actor resting in a state that has an
\* entry of its own, reached through the onSuccess or onError of the target
RestsInEntryState(p) ==
    /\ EnteredAndReturned(p)
    /\ HasEntry(StateConfig(States, RestingState(p)))

\* C31: a send calls an entry at most once, and exactly once when the target
\* of its transition has one, with the receiver's context and the payload;
\* when the onSuccess or onError target it routes to has an entry too, that
\* entry is not called: the actor returned is in that state, its context
\* being what the one call returned, or the receiver's if the call failed.
C31_OneEntryPerSend ==
    \A p \in DOMAIN pc :
      call[p].op = "send" =>
        /\ call[p].entries <= 1
        /\ DoneSend(p) => call[p].entries = (IF Enters(p) THEN 1 ELSE 0)
        /\ RestsInEntryState(p) =>
             /\ call[p].entries = 1
             /\ call[p].entryArgs = Some([context |-> Receiver(p).context,
                                          payload |-> call[p].payload])
             /\ Returned(p).state = RestingState(p)
             /\ Returned(p).context = IF EntrySucceeds(p) THEN EntryOutcome(p).value
                                                          ELSE Receiver(p).context

C31_Witness ==
    \E p \in DOMAIN pc :
      /\ RestsInEntryState(p) /\ EntrySucceeds(p)
      /\ Receiver(p).state = "idle" /\ call[p].event = "fetch"
      /\ Target(p) = "fetching"
      /\ Returned(p).state = "polling"
      /\ "entry" \in DOMAIN States["polling"]
      /\ call[p].entries = 1
      /\ Returned(p).context = [attempts |-> Receiver(p).context.attempts + 1]

\* a send that is over, whose event matched a transition to a name that is
\* not a key of `states`
DanglingSend(p) == DoneSend(p) /\ Matched(p) /\ Target(p) \notin DOMAIN States

\* a send that is over, on an actor whose state is not a key of `states`
StuckSend(p) == DoneSend(p) /\ Receiver(p).state \notin DOMAIN States

\* C32: a send whose matched transition names a target that is no key of
\* `states` raises nothing: it calls no entry, saves once and returns a new
\* actor whose state is that name and whose context is the receiver's, and
\* the record of the id is its snapshot; every send on an actor in such a
\* state, whatever the event and the payload, returns that same actor, calls
\* no entry and saves nothing.
C32_DanglingTargetSticks ==
    \A p \in DOMAIN pc :
      /\ DanglingSend(p) =>
           /\ call[p].outcome = "returned" /\ IsNull(call[p].error)
           /\ call[p].entries = 0 /\ call[p].saves = 1
           /\ call[p].result # call[p].receiver
           /\ Returned(p).state = Target(p)
           /\ Returned(p).context = Receiver(p).context
           /\ Get(call[p].newSnapshot) = Returned(p).snapshot
      /\ StuckSend(p) =>
           /\ call[p].outcome = "returned" /\ IsNull(call[p].error)
           /\ call[p].result = call[p].receiver
           /\ call[p].entries = 0 /\ call[p].saves = 0
           /\ IsNull(call[p].newSnapshot)

C32_Witness ==
    \E p \in DOMAIN pc :
      /\ StuckSend(p)
      /\ call[p].event = "start"
      /\ Receiver(p).state = "nonexistent"
      /\ call[p].receiver = 2
      /\ actors[1].state = "idle" /\ actors[1].id = Receiver(p).id
      /\ actors[1].context = Receiver(p).context
      /\ store[Receiver(p).id] = JSONStringify(Receiver(p).snapshot)

\* a send that is over, on an actor that was built from a snapshot whose
\* state is not a key of `states`
SendOnForeignSnapshot(p) ==
    /\ DoneSend(p)
    /\ Parent(call[p].receiver) = 0
    /\ Receiver(p).snapshot.state \notin DOMAIN States

\* C33: a send of any event, with any payload, on an actor built from a
\* snapshot whose state is not a key of `states` returns the actor it was
\* called on and raises nothing; it calls no entry, builds no snapshot and
\* calls no save, so nothing is written.
C33_ForeignStateIsUnhandled ==
    /\ \A p \in DOMAIN pc :
         SendOnForeignSnapshot(p) =>
           /\ ~Matched(p)
           /\ call[p].outcome = "returned" /\ IsNull(call[p].error)
           /\ call[p].result = call[p].receiver
           /\ call[p].entries = 0 /\ call[p].saves = 0 /\ call[p].setNo = 0
           /\ IsNull(call[p].newSnapshot)
    /\ (\A a \in 1..Len(actors) : actors[a].state \notin DOMAIN States)
       => (sets = 0 /\ store = undefined)

C33_Witness ==
    \E p \in DOMAIN pc :
      /\ SendOnForeignSnapshot(p)
      /\ Receiver(p).state = "archived"
      /\ call[p].event = "process"
      /\ call[p].result = call[p].receiver
      /\ Len(actors) = 1
      /\ store = undefined

\* the step in which the await of a save that the backend rejected resumes
FailedSaveResumes(p) ==
    pc[p] = "send_save" /\ ~call[p].ok /\ pc'[p] # pc[p]

\* C34: when a send whose target has an entry calls save, the entry has been
\* called, once, and has returned: an asynchronous one in an earlier step,
\* the send having awaited it without saving, and the snapshot handed to save
\* carries what the entry returned; a save that the backend rejects leaves
\* the store as it was, and when its await resumes the send raises, with the
\* entry called and no actor allocated, the store still being as it was.
C34_EntryThenSaveNotAtomic ==
    /\ [][\A p \in DOMAIN pc :
            (SaveStep(p) /\ Enters(p)') =>
              /\ call'[p].entries = 1
              /\ call'[p].saves = 1
              /\ (TargetNode(p).entry.async)' =>
                   /\ pc[p] = "send_entry"
                   /\ call[p].entries = 1 /\ call[p].saves = 0
                   /\ ~IsNull(call[p].pending)
              /\ EntrySucceeds(p)' =>
                   Get(call'[p].newSnapshot).context = EntryOutcome(p)'.value
              /\ ~call'[p].ok => (store' = store /\ sets' = sets)]_vars
    /\ [][\A p \in DOMAIN pc :
            (FailedSaveResumes(p) /\ Enters(p)) =>
              /\ pc'[p] = "done"
              /\ call'[p].outcome = "raised"
              /\ call'[p].entries = 1
              /\ call'[p].result = 0
              /\ actors' = actors
              /\ store' = store]_vars

C34_Witness ==
    \E p \in DOMAIN pc :
      /\ DoneSend(p) /\ AdapterFailed(p) /\ EntrySucceeds(p)
      /\ TargetNode(p).entry.async
      /\ call[p].entries = 1
      /\ call[p].outcome = "raised"
      /\ Get(call[p].newSnapshot).context = [attempts |-> Receiver(p).context.attempts + 1]
      /\ Len(actors) = 1
      /\ store[Receiver(p).id] = JSONStringify(actors[1].snapshot)

\* a send whose event matched and whose transition comes to rest in the
\* state of its receiver
SelfTransition(p) ==
    call[p].op = "send" /\ Matched(p) /\ RestingState(p) = Receiver(p).state

\* C35: a send whose transition comes to rest in the state its receiver is
\* in, directly or through an entry state, is carried out like any other:
\* it calls save once, with a snapshot in that state whose updatedAt is the
\* time of the call, and the write is done; when the save completes it
\* returns a newly allocated actor, not its receiver, in the receiver's
\* state, whose updatedAt is not earlier than the receiver's.
C35_SelfTransitionIsEffective ==
    /\ [][\A p \in DOMAIN pc :
            (SaveStep(p) /\ SelfTransition(p)') =>
              /\ call'[p].saves = 1
              /\ sets' = sets + 1
              /\ Get(call'[p].newSnapshot).state = Receiver(p)'.state
              /\ Get(call'[p].newSnapshot).updatedAt = clock
              /\ store'[Receiver(p)'.id] = JSONStringify(Get(call'[p].newSnapshot))]_vars
    /\ [](\A p \in DOMAIN pc :
            (DoneSend(p) /\ SelfTransition(p)) =>
              /\ call[p].outcome = "returned"
              /\ call[p].saves = 1
              /\ call[p].result # call[p].receiver
              /\ Parent(call[p].result) = call[p].receiver
              /\ Returned(p).state = Receiver(p).state
              /\ Returned(p).snapshot.updatedAt >= Receiver(p).snapshot.updatedAt)

C35_Witness ==
    \E p \in DOMAIN pc :
      /\ DoneSend(p) /\ SelfTransition(p)
      /\ call[p].event = "increment" /\ call[p].entries = 1
      /\ call[p].receiver = 2 /\ call[p].result = 3
      /\ Parent(2) = 1
      /\ actors[2].snapshot = [actors[1].snapshot EXCEPT !.updatedAt = TickStep]
      /\ actors[1].snapshot.updatedAt = 0
      /\ Returned(p).state = "counting"
      /\ Returned(p).context = [count |-> 1]

\* the id that the call of p works on
CallId(p) ==
    IF call[p].op = "send" THEN Receiver(p).id ELSE call[p].id

\* a step of a call of p
StepOf(p) == call'[p] # call[p] \/ pc'[p] # pc[p]

\* C36: the snapshot that a send builds and hands to save has the id of its
\* receiver, and so has the actor it returns; the step in which it saves
\* writes the record of that id and no other; and no step of a call made on
\* an id (a send on an actor of that id, a createActor or a getActor of it)
\* adds, removes or changes the record of another id.
C36_SendWritesOnlyItsOwnRecord ==
    /\ [](\A p \in DOMAIN pc :
            (call[p].op = "send" /\ ~IsNull(call[p].newSnapshot)) =>
              /\ Get(call[p].newSnapshot).id = Receiver(p).id
              /\ call[p].result # 0 => Returned(p).id = Receiver(p).id)
    /\ [][\A p \in DOMAIN pc :
            SaveStep(p) =>
              /\ DOMAIN store' = DOMAIN store \cup {Receiver(p)'.id}
              /\ store'[Receiver(p)'.id] = JSONStringify(Get(call'[p].newSnapshot))]_vars
    /\ [][\A p \in DOMAIN pc :
            StepOf(p) =>
              \A id \in (DOMAIN store \cup DOMAIN store') \ {CallId(p)'} :
                /\ id \in DOMAIN store /\ id \in DOMAIN store'
                /\ store'[id] = store[id]]_vars

C36_Witness ==
    \E p \in DOMAIN pc :
      /\ EffectiveSend(p)
      /\ Receiver(p).id = "A" /\ Returned(p).id = "A"
      /\ Returned(p).state = "green"
      /\ store["A"] = JSONStringify(Returned(p).snapshot)
      /\ \E b \in 1..Len(actors) :
           /\ actors[b].id = "B" /\ actors[b].state = "red"
           /\ store["B"] = JSONStringify(actors[b].snapshot)

\* a send whose event is no key of the `on` table of its receiver's state
Unhandled(p) == call[p].op = "send" /\ ~Matched(p)

\* C37: a send of an unhandled event is over at once and has called no
\* entry: it never awaits one, no entry was given arguments, no result of
\* one is pending, and the context of the actor it returns, its receiver, is
\* untouched; this also when the receiver's state has an entry of its own
\* and when the event leads to an entry state from another state.
C37_UnhandledEventRunsNoEntry ==
    \A p \in DOMAIN pc :
      Unhandled(p) =>
        /\ pc[p] = "done"
        /\ call[p].entries = 0
        /\ IsNull(call[p].entryArgs)
        /\ IsNull(call[p].pending)
        /\ call[p].result = call[p].receiver
        /\ Returned(p).context = Receiver(p).context

C37_Witness ==
    \E p \in DOMAIN pc :
      /\ Unhandled(p) /\ pc[p] = "done"
      /\ Receiver(p).state = "polling"
      /\ HasEntry(States["polling"])
      /\ call[p].event = "fetch"
      /\ HasEntry(States[States["idle"].on["fetch"].target])
      /\ call[p].entries = 0

\* createdAt is not later than updatedAt
Ordered(snapshot) == snapshot.createdAt <= snapshot.updatedAt

\* C38: with a clock that never goes back, createdAt is not later than
\* updatedAt in the snapshot of every actor that createActor or a send
\* returned, in every snapshot handed to create or save, and in every record
\* once decoded, neither being later than the clock; in the snapshot of an
\* actor that createActor returned the two are equal.
C38_CreatedAtNotAfterUpdatedAt ==
    /\ \A a \in 1..Len(actors) :
         /\ Ordered(actors[a].snapshot)
         /\ actors[a].snapshot.updatedAt <= clock
         /\ Parent(a) = 0 => actors[a].snapshot.createdAt = actors[a].snapshot.updatedAt
    /\ \A p \in DOMAIN pc :
         ~IsNull(call[p].newSnapshot) => Ordered(Get(call[p].newSnapshot))
    /\ \A id \in DOMAIN store :
         Ordered(Get(LoadResult(ClientGet(store, id))))

C38_Witness ==
    \E a, b \in 1..Len(actors) :
      /\ Parent(a) = 0 /\ Parent(b) = a
      /\ actors[a].snapshot.createdAt = 0 /\ actors[a].snapshot.updatedAt = 0
      /\ actors[b].snapshot.createdAt = 0 /\ actors[b].snapshot.updatedAt = TickStep
      /\ clock = TickStep
      /\ store[actors[b].id].updatedAt = toISOString(TickStep)

=============================================================================
